---- MODULE Spec2Model ----
(***************************************************************************)
(* Aura Effects: the aura evaluation and synchronisation engine.           *)
(*                                                                         *)
(* The scene is a row of grid cells (one grid unit per cell, 1x1 tokens).  *)
(* Tokens carry an actor; actors own aura source effects; the active GM    *)
(* (the mutation authority) clones source effects onto actors in range.    *)
(* Every handler of scripts/auras.mjs is an asynchronous task: it runs     *)
(* from one await to the next in one step, and is suspended in between.    *)
(***************************************************************************)
EXTENDS Integers, Sequences, FiniteSets, TLC

VARIABLES
    actorOf,      \* token -> actor (NoActor: an actorless token)
    disp,         \* token -> disposition code (-1 hostile, 0 neutral, 1 friendly)
    present,      \* the tokens on the scene (scene.tokens)
    pos,          \* token -> cell of the token document (token.x)
    hidden,       \* token -> hidden flag
    mv,           \* token -> token.movement: [origin, dest, pend, state]
    animating,    \* tokens whose movement animation promise is unresolved
    srcs,         \* aura source effect -> its document (owner, flags, system data)
    flag,         \* actor -> roll-data bit read by the conditional scripts
    grid,         \* the scene grid, its walls and the token sizes
    engine,       \* how Array.prototype.sort of the browser calls its comparator
    applied,      \* the aura-derived (fromAura) effects: [id, actor, origin, name]
    gm,           \* TRUE iff game.users.activeGM is present
    seenWarning,  \* user -> the module-level seenWarning of that session
    warnings,     \* user -> number of NoActiveGM notifications shown
    handlers,     \* the suspended handler invocations
    queries,      \* the queries in flight to the active GM
    raised,       \* TRUE once a handler has ended in an uncaught error
    hooks,        \* the hook calls of the last document change, not yet run
    probe,        \* the helper applied last, when a helper is exercised on its own
    canvas,       \* the aura visualisation: placeables, tokenAuras, canvas.effects.auraEffects
    budget        \* external events still to come

vars == <<actorOf, disp, present, pos, hidden, mv, animating, srcs, flag, grid, engine,
          applied, gm, seenWarning, warnings, handlers, queries, raised, hooks, probe, canvas,
          budget>>

world == <<actorOf, disp, present, pos, hidden, mv, animating, srcs, flag, grid, engine, canvas>>

----------------------------------------------------------------------------
(* Bounds of the model *)

MaxPos == 3
MaxEvents == 2
MaxWarn == 2

Tokens == {1, 2, 3, 4}
Actors == {1, 2, 3}
Src == {1, 2, 3}
Users == {"gm", "p1", "p2"}
Cells == 0..MaxPos
NoActor == 0

\* the collision types with a polygon backend
Types == {"move", "sight"}

\* larger than every distance of the scene
Infinity == 1000

----------------------------------------------------------------------------
(* Sequences and sets *)

RECURSIVE SeqOfSet(_)
SeqOfSet(S) ==
    IF S = {} THEN <<>>
    ELSE LET m == CHOOSE x \in S : \A y \in S : x <= y
         IN  <<m>> \o SeqOfSet(S \ {m})

Range(s) == {s[i] : i \in 1..Len(s)}

\* Array.prototype.flat: the arrays of a sequence, one after the other
RECURSIVE Flat(_)
Flat(ss) ==
    IF ss = <<>> THEN <<>> ELSE Head(ss) \o Flat(Tail(ss))

\* the applied effects of a set, as an array in creation order
RECURSIVE EffSeq(_)
EffSeq(S) ==
    IF S = {} THEN <<>>
    ELSE LET m == CHOOSE x \in S : \A y \in S : x.id <= y.id
         IN  <<m>> \o EffSeq(S \ {m})

Abs(n) == IF n < 0 THEN -n ELSE n

----------------------------------------------------------------------------
(* Documents *)

SceneTokens == SeqOfSet(present)

\* actor.getActiveTokens(false, true)
ActiveTokens(a) == SeqOfSet({t \in present : actorOf[t] = a})

\* actor.effects, restricted to the aura-derived ones
EffectsOn(a) == {x \in applied : x.actor = a}

\* a.effects.find(e => e.origin === uuid)
HasOrigin(a, e) == \E x \in EffectsOn(a) : x.origin = e
FindOrigin(a, e) == EffSeq({x \in EffectsOn(a) : x.origin = e})

\* AuraActiveEffectData.isSuppressed: disable-on-hidden while the owner's token is hidden
IsSuppressed(e) ==
    /\ srcs[e].doh
    /\ \E t \in present : actorOf[t] = srcs[e].owner /\ hidden[t]

IsActive(e) == srcs[e].exists /\ ~srcs[e].disabled /\ ~IsSuppressed(e)

\* (e.system.overrideName.trim() || e.name)
DisplayName(e) == srcs[e].name

----------------------------------------------------------------------------
(* Geometry Module *)

\* Points are measured in half cells, so that the centre of a cell and the
\* centre of a token are integers. grid.distance is the number of distance
\* units per cell; grid.walls[type] holds the cells whose left edge carries a
\* wall of that type; grid.width[t] is the width of token t in cells.

\* scene.grid.getCenterPoint(offset), for the offset of a cell
CellCenter(c) == 2 * c + 1

\* token.getCenterPoint(origin), for a token whose left edge is at cell p
TokenCenter(t, p) == 2 * p + grid.width[t]

\* CONFIG.Canvas.polygonBackends[type]?.testCollision(a, b, { type, mode: "any" })
testCollision(a, b, type) ==
    /\ type \in Types
    /\ \E w \in grid.walls[type] : (a < 2 * w /\ 2 * w < b) \/ (b < 2 * w /\ 2 * w < a)

\* scene.grid.measurePath([a, b]).distance
measurePath(a, b) == (Abs(a - b) * grid.distance) \div 2

NoCollision(a, b, collisionTypes) == measurePath(a, b)

getDistance(a, b, collisionTypes) ==
    IF \E i \in 1..Len(collisionTypes) : testCollision(a, b, collisionTypes[i])
    THEN Infinity
    ELSE measurePath(a, b)

\* token.getOccupiedGridSpaceOffsets(origin) on a grid, the centre point without one
Offsets(t, p) ==
    IF grid.gridless THEN {TokenCenter(t, p)}
    ELSE {CellCenter(c) : c \in p..(p + grid.width[t] - 1)}

NoAdjust(tokenA) == 0

\* (scene.grid.distance / scene.grid.size) * tokenA.object.externalRadius, or 0
externalAdjust(tokenA) ==
    IF grid.gridless THEN (grid.distance * grid.width[tokenA]) \div 2 ELSE 0

Min(S) == CHOOSE x \in S : \A y \in S : x <= y

DistanceFromDocument(tokenA, tokenB, origin, collisionTypes) ==
    measurePath(CellCenter(pos[tokenA]), CellCenter(pos[tokenB]))

\* origin < 0: no origin override
getTokenToTokenDistance(tokenA, tokenB, origin, collisionTypes) ==
    LET tokenAOffsets == Offsets(tokenA, IF origin >= 0 THEN origin ELSE pos[tokenA])
        tokenBOffsets == Offsets(tokenB, pos[tokenB])
        distances == {getDistance(a, b, collisionTypes) :
                         a \in tokenAOffsets, b \in tokenBOffsets}
    IN  IF Min(distances) = Infinity THEN Infinity
        ELSE Min(distances) - externalAdjust(tokenA)

\* the cell of the rendered placeable of a token: it follows the document when
\* the animation ends
ObjectCenter(t) == IF t \in animating THEN mv[t].origin ELSE pos[t]

CentresWithin(sourceToken, radius) ==
    {t \in present :
        Abs(ObjectCenter(t) - ObjectCenter(sourceToken)) * grid.distance <= radius}

\* the placeables whose bounds meet the square around the centre of the source
getGenerallyWithin(sourceToken, radius) ==
    LET adjustedRadius == (2 * radius) \div grid.distance + grid.width[sourceToken]
        center == 2 * ObjectCenter(sourceToken) + grid.width[sourceToken]
    IN  {t \in present :
            /\ 2 * ObjectCenter(t) <= center + adjustedRadius
            /\ 2 * ObjectCenter(t) + 2 * grid.width[t] >= center - adjustedRadius}

DispositionMatches(source, t, disposition) ==
    IF disposition < 0 THEN disp[source] * disp[t] = -1
    ELSE IF disposition > 0 THEN disp[source] = disp[t]
    ELSE TRUE

NearbyAny(source, radius, origin, disposition, collisionTypes) ==
    LET putativeTokens ==
            {t \in getGenerallyWithin(source, radius) :
                DispositionMatches(source, t, disposition)}
    IN  SeqOfSet({t \in putativeTokens :
                    getTokenToTokenDistance(source, t, origin, collisionTypes) <= radius})

getNearbyTokens(source, radius, origin, disposition, collisionTypes) ==
    LET putativeTokens ==
            {t \in getGenerallyWithin(source, radius) :
                actorOf[t] # NoActor /\ DispositionMatches(source, t, disposition)}
    IN  SeqOfSet({t \in putativeTokens :
                    getTokenToTokenDistance(source, t, origin, collisionTypes) <= radius})

----------------------------------------------------------------------------
(* Predicate Evaluator *)

ScriptIgnored(sourceToken, token, e) == TRUE

executeScript(sourceToken, token, e) ==
    CASE srcs[e].script = "none"   -> TRUE
      [] srcs[e].script = "flag"   -> flag[actorOf[token]]
      [] srcs[e].script = "throws" -> TRUE

\* Function("actor", ..., `return Boolean(${script});`) parses the script text
\* when the function is built, before the try block is entered
FailsToCompile(e) == srcs[e].script = "syntax"

\* how a call of executeScript ends: with one of the two values, or by throwing
executeScriptResult(sourceToken, token, e) ==
    IF FailsToCompile(e) THEN "error"
    ELSE IF executeScript(sourceToken, token, e) THEN "true" ELSE "false"

----------------------------------------------------------------------------
(* Aura Registry *)

AnyAuras(a) ==
    IF a = NoActor THEN <<>> ELSE SeqOfSet({e \in Src : srcs[e].owner = a})

NoAuras(a) == <<>>

\* getAllAuraEffects(actor)[0] and [1], in the order of the actor's effects
ActiveAuras(a) ==
    IF a = NoActor THEN <<>>
    ELSE SeqOfSet({e \in Src : srcs[e].exists /\ srcs[e].owner = a /\ IsActive(e)})

InactiveAuras(a) ==
    IF a = NoActor THEN <<>>
    ELSE SeqOfSet({e \in Src : srcs[e].exists /\ srcs[e].owner = a /\ ~IsActive(e)})

\* getAllAuraEffects(actor): the two arrays, and whether console.warn was called
getAllAuraEffects(a) ==
    [active |-> ActiveAuras(a), inactive |-> InactiveAuras(a), warned |-> a = NoActor]

isFinalMovementComplete(token) ==
    \/ mv[token].state = "stopped"
    \/ /\ ~mv[token].pend
       /\ mv[token].dest = pos[token]

----------------------------------------------------------------------------
(* Scene Delta Calculator *)

\* token.actor.appliedEffects.filter(i => i.flags?.auraeffects?.fromAura)
CurrentAppliedAuras(token) == EffSeq(EffectsOn(actorOf[token]))

\* the body of the reduce over token.parent.tokens, for one sourceToken
DeltaOfSource(token, sourceToken) ==
    LET cur == CurrentAppliedAuras(token)
        disposition == disp[token] * disp[sourceToken]
        act == ActiveAuras(actorOf[sourceToken])
        inact == InactiveAuras(actorOf[sourceToken])
        stale == SelectSeq(cur, LAMBDA x : x.origin \in Range(inact))
        auraEffects == SelectSeq(act, LAMBDA e : srcs[e].filter \in {0, disposition})
        Fails(e) ==
            \/ srcs[e].radius < getTokenToTokenDistance(sourceToken, token, -1,
                                                         srcs[e].collisionTypes)
            \/ ~executeScript(sourceToken, token, e)
        RemOf(e) ==
            LET currentlyApplied == SelectSeq(cur, LAMBDA x : x.origin = e)
            IN  IF Fails(e) /\ currentlyApplied # <<>>
                THEN <<Head(currentlyApplied)>> ELSE <<>>
    IN  IF actorOf[sourceToken] = actorOf[token]
        THEN [rem |-> <<>>, add |-> <<>>]
        ELSE [rem |-> stale \o Flat([i \in 1..Len(auraEffects) |-> RemOf(auraEffects[i])]),
              add |-> SelectSeq(auraEffects, LAMBDA e : ~Fails(e))]

\* the loop after the reduce: applied effects whose origin is gone or inactive
NoStale(token) == <<>>

StaleOrigins(token) ==
    SelectSeq(CurrentAppliedAuras(token),
              LAMBDA x : ~srcs[x.origin].exists \/ srcs[x.origin].disabled
                         \/ IsSuppressed(x.origin))

getChangingSceneAuras(token) ==
    LET Rem(s) == DeltaOfSource(token, s).rem
        Add(s) == DeltaOfSource(token, s).add
    IN  [rem |-> Flat([i \in 1..Len(SceneTokens) |-> Rem(SceneTokens[i])]) \o StaleOrigins(token),
         add |-> Flat([i \in 1..Len(SceneTokens) |-> Add(SceneTokens[i])])]

----------------------------------------------------------------------------
(* Mutation Authority: the two queries the active GM serves *)

\* the keys of actorToEffectsMap: the uuid of an actor, or undefined (the
\* key `a?.uuid` gives for a token without an actor)
Holders == Actors \cup {NoActor}

EmptyMap == [a \in Holders |-> <<>>]
isEmpty(map) == \A a \in Holders : map[a] = <<>>

\* actorToEffectsMap[actorUuid] = (actorToEffectsMap[actorUuid] ?? []).concat(uuid)
Concat(map, a, es) == [map EXCEPT ![a] = @ \o es]

RECURSIVE ConcatAll(_, _, _)
ConcatAll(map, as, e) ==
    IF as = <<>> THEN map
    ELSE ConcatAll(Concat(map, Head(as), <<e>>), Tail(as), e)

\* the (actor, source effect) pairs of a batch, in order
MapPairs(map) ==
    LET Of(a) == [i \in 1..Len(map[a]) |-> <<a, map[a][i]>>]
    IN  Flat([i \in 1..Cardinality(Actors) |-> Of(SeqOfSet(Actors)[i])])

IdsInUse ==
    {x.id : x \in applied}
        \cup UNION {{x.id : x \in Range(h.del)} : h \in handlers}
        \cup UNION {q.ids : q \in queries}

FreshId(S) == CHOOSE n \in 1..(Cardinality(S) + 1) : n \notin S

CloneAlways(set, a, e) ==
    IF ~srcs[e].exists
    THEN set
    ELSE set \cup {[id |-> FreshId(IdsInUse \cup {x.id : x \in set}),
                    actor |-> a, origin |-> e, name |-> DisplayName(e)]}

\* clone one source effect onto one actor; an origin the actor already holds is skipped
CloneOnto(set, a, e) ==
    IF ~srcs[e].exists \/ (\E x \in set : x.actor = a /\ x.origin = e)
    THEN set
    ELSE set \cup {[id |-> FreshId(IdsInUse \cup {x.id : x \in set}),
                    actor |-> a, origin |-> e, name |-> DisplayName(e)]}

RECURSIVE ApplyPairs(_, _)
ApplyPairs(set, pairs) ==
    IF pairs = <<>> THEN set
    ELSE ApplyPairs(CloneOnto(set, Head(pairs)[1], Head(pairs)[2]), Tail(pairs))

\* CONFIG.queries["auraeffects.applyAuraEffects"]
applyAuraEffects(map) == ApplyPairs(applied, MapPairs(map))

\* CONFIG.queries["auraeffects.deleteEffects"]
deleteEffects(ids) == {x \in applied : x.id \notin ids}

----------------------------------------------------------------------------
(* Handler invocations *)

\* the locals of a suspended handler
Blank ==
    [hid |-> 0, kind |-> "none", user |-> "none", pc |-> "none", k |-> "none",
     ret |-> "none", tok |-> 0, eff |-> 0, upd |-> "none", act |-> <<>>, inact |-> <<>>,
     i |-> 0,
     pre |-> [e \in Src |-> {}], post |-> {}, map |-> EmptyMap,
     del |-> <<>>, add |-> <<>>, names |-> <<>>]

\* what one run of a handler, from one await to the next, does
Finished == [hs |-> {}, qs |-> {}, err |-> FALSE, direct |-> {}, warn |-> FALSE]
Thrown == [Finished EXCEPT !.err = TRUE]
NoGM == [Finished EXCEPT !.warn = TRUE]

Final(h) == IF h.kind = "moveToken" THEN isFinalMovementComplete(h.tok) ELSE TRUE

ApplyQuery(h, map, via) ==
    [hid |-> h.hid, user |-> h.user, kind |-> h.kind, type |-> "apply", via |-> via,
     map |-> map, ids |-> {}, final |-> Final(h)]

DeleteQuery(h, effects) ==
    [hid |-> h.hid, user |-> h.user, kind |-> h.kind, type |-> "delete", via |-> "direct",
     map |-> EmptyMap, ids |-> {x.id : x \in Range(effects)}, final |-> Final(h)]

\* await activeGM.query(...), then go on at k
Ask(h, q, k) ==
    [Finished EXCEPT !.hs = {[h EXCEPT !.pc = "wait", !.k = k]}, !.qs = {q}]

\* await activeGM.query("auraeffects.applyAuraEffects", map)
AskApply(h, map, via, k) == Ask(h, ApplyQuery(h, map, via), k)

AskDeleteDirect(h, effects, k) ==
    [Finished EXCEPT !.hs = {[h EXCEPT !.pc = "ready", !.k = k, !.del = <<>>]},
                     !.direct = {x.id : x \in Range(effects)}]

\* await activeGM.query("auraeffects.deleteEffects", { effectUuids })
AskDelete(h, effects, k) == Ask([h EXCEPT !.del = <<>>], DeleteQuery(h, effects), k)

----------------------------------------------------------------------------
(* Best-Of Arbiter *)

effectToRemovedNone(acc, effects) == acc

\* effectToRemovedMap: effect name -> the tokens of the actors that lose it
RECURSIVE effectToRemovedMap(_, _)
effectToRemovedMap(acc, effects) ==
    IF effects = <<>> THEN acc
    ELSE LET x == Head(effects)
             toks == ActiveTokens(x.actor)
             at == {i \in 1..Len(acc) : acc[i].name = x.name}
         IN  effectToRemovedMap(
                 IF at = {} THEN Append(acc, [name |-> x.name, toks |-> toks])
                 ELSE [acc EXCEPT ![CHOOSE i \in at : TRUE].toks = @ \o toks],
                 Tail(effects))

\* the first part of removeAndReplaceAuras, up to the await of the delete query
removeAndReplaceAuras(h, effects, ret) ==
    IF ~gm THEN Thrown
    ELSE AskDelete([h EXCEPT !.names = effectToRemovedMap(<<>>, effects), !.ret = ret],
                   effects, "rrApply")

getSourceEffect(token, effectName) ==
    SelectSeq(ActiveAuras(actorOf[token]), LAMBDA e : DisplayName(e) = effectName)

allEmitting(effectName) ==
    SelectSeq(SceneTokens, LAMBDA t : getSourceEffect(t, effectName) # <<>>)

\* the comparator of allEmitting.sort
CompareReversed(a, b, effectName) ==
    LET effectA == getSourceEffect(a, effectName)
        effectB == getSourceEffect(b, effectName)
    IN  IF effectA = <<>> THEN 1
        ELSE IF effectB = <<>> THEN -1
        ELSE IF ~srcs[Head(effectA)].formula THEN 1
        ELSE IF ~srcs[Head(effectB)].formula THEN -1
        ELSE srcs[Head(effectA)].total - srcs[Head(effectB)].total

Compare(a, b, effectName) ==
    LET effectA == getSourceEffect(a, effectName)
        effectB == getSourceEffect(b, effectName)
    IN  IF effectA = <<>> THEN 1
        ELSE IF effectB = <<>> THEN -1
        ELSE IF ~srcs[Head(effectA)].formula THEN 1
        ELSE IF ~srcs[Head(effectB)].formula THEN -1
        ELSE srcs[Head(effectB)].total - srcs[Head(effectA)].total

\* The comparator answers 1 for two emitters without best-formula whichever
\* comes first, so it is not a consistent comparator and the order of such
\* emitters is left to the browser: one engine passes the element it inserts
\* as the first argument, another passes it as the second.
Engines == {"PivotFirst", "PivotLast"}

\* the inserted element p goes before x
GoesBefore(p, x, effectName) ==
    IF engine = "PivotFirst" THEN Compare(p, x, effectName) < 0
    ELSE Compare(x, p, effectName) > 0

\* Array.prototype.sort: a stable insertion sort driven by the comparator
RECURSIVE Insert(_, _, _)
Insert(s, p, effectName) ==
    IF s = <<>> THEN <<p>>
    ELSE IF GoesBefore(p, s[Len(s)], effectName)
         THEN Insert(SubSeq(s, 1, Len(s) - 1), p, effectName) \o <<s[Len(s)]>>
         ELSE s \o <<p>>

RECURSIVE Sorted(_, _)
Sorted(s, effectName) ==
    IF s = <<>> THEN <<>>
    ELSE Insert(Sorted(SubSeq(s, 1, Len(s) - 1), effectName), s[Len(s)], effectName)

Qualifies(sourceToken, targetToken, effectName) ==
    LET effect == getSourceEffect(sourceToken, effectName)
    IN  /\ effect # <<>>
        /\ ~(srcs[Head(effect)].radius
                < getTokenToTokenDistance(sourceToken, targetToken, -1,
                                          srcs[Head(effect)].collisionTypes))
        /\ executeScript(sourceToken, targetToken, Head(effect))
        /\ ~(~srcs[Head(effect)].applyToSelf /\ sourceToken = targetToken)

\* the inner loop: the first emitter that qualifies, if any
Replacement(targetToken, effectName) ==
    LET q == SelectSeq(Sorted(allEmitting(effectName), effectName),
                       LAMBDA s : Qualifies(s, targetToken, effectName))
    IN  IF q = <<>> THEN <<>> ELSE <<Head(getSourceEffect(Head(q), effectName))>>

RECURSIVE ReplaceTokens(_, _, _)
ReplaceTokens(map, toks, effectName) ==
    IF toks = <<>> THEN map
    ELSE LET r == Replacement(Head(toks), effectName)
         IN  ReplaceTokens(Concat(map, actorOf[Head(toks)], r), Tail(toks), effectName)

RECURSIVE newBestApplyMap(_, _)
newBestApplyMap(map, names) ==
    IF names = <<>> THEN map
    ELSE newBestApplyMap(ReplaceTokens(map, Head(names).toks, Head(names).name),
                         Tail(names))

----------------------------------------------------------------------------
(* Reconciliation Engine: the parts the handlers share *)

\* game.user.id !== userId
NotInitiatorNever(s, u) == FALSE

NotInitiator(s, u) == s # u

\* the source effects with a radius: if (!radius) continue
Radiating(effects) == SelectSeq(effects, LAMBDA e : srcs[e].radius # 0)

\* executeScript begins with token.actor.getRollData(): it raises for a token
\* without an actor, so a handler that runs the script on the tokens nearby
\* raises when one of them has none
ActorlessNearby(token, effects) ==
    \E i \in 1..Len(effects) :
        \E t \in Range(getNearbyTokens(token, srcs[effects[i]].radius, -1,
                                        srcs[effects[i]].filter,
                                        srcs[effects[i]].collisionTypes)) :
            actorOf[t] = NoActor

\* the actors of the in-range tokens that pass the script of effect e
InRangeActors(token, e) ==
    LET nearby == getNearbyTokens(token, srcs[e].radius, -1, srcs[e].filter,
                                  srcs[e].collisionTypes)
    IN  {actorOf[t] : t \in {n \in Range(nearby) : executeScript(token, n, e)}}

ToAddToAny(token, e, inRange) ==
    SeqOfSet({a \in inRange : ~HasOrigin(a, e)})

\* Array.from(inRange.filter(a => (a !== token.actor) && !a?.effects.find(...)))
ToAddTo(token, e, inRange) ==
    SeqOfSet({a \in inRange : a # actorOf[token] /\ ~HasOrigin(a, e)})

\* the loop of createToken, and of updateToken when a token is shown
RECURSIVE InRangeMap(_, _, _)
InRangeMap(map, token, effects) ==
    IF effects = <<>> THEN map
    ELSE LET e == Head(effects)
         IN  IF srcs[e].radius = 0 THEN InRangeMap(map, token, Tail(effects))
             ELSE InRangeMap(ConcatAll(map, ToAddTo(token, e, InRangeActors(token, e)), e),
                             token, Tail(effects))

\* canvas.scene.tokens ... flatMap(t => t.actor.appliedEffects).filter(origin in uuids),
\* over the tokens of the set keep
AppliedElsewhere(keep, uuids) ==
    LET Of(t) == IF actorOf[t] # NoActor /\ t \in keep
                 THEN EffSeq({x \in EffectsOn(actorOf[t]) : x.origin \in uuids})
                 ELSE <<>>
    IN  Flat([i \in 1..Len(SceneTokens) |-> Of(SceneTokens[i])])

----------------------------------------------------------------------------
(* moveToken, after the movement animation *)

\* line 263: the scene delta additions, on the final leg only
MvAdd(h) ==
    IF h.add # <<>> /\ isFinalMovementComplete(h.tok)
    THEN AskApply(h, Concat(EmptyMap, actorOf[h.tok], h.add), "direct", "end")
    ELSE Finished

\* lines 259-262: the scene delta of the moved token
MvDelta(h) ==
    LET d == getChangingSceneAuras(h.tok)
        g == [h EXCEPT !.add = d.add, !.map = EmptyMap]
    IN  IF d.rem # <<>> THEN removeAndReplaceAuras(g, d.rem, "mvAdd") ELSE MvAdd(g)

\* lines 255-257
MvAfterLoop(h) ==
    IF isFinalMovementComplete(h.tok) /\ ~isEmpty(h.map)
    THEN AskApply(h, h.map, "direct", "mvDelta")
    ELSE MvDelta(h)

\* lines 232-246: the next source effect with a radius, up to its removals
MvBody(h) ==
    LET rest == {j \in h.i..Len(h.act) : srcs[h.act[j]].radius # 0}
    IN  IF rest = {} THEN MvAfterLoop(h)
        ELSE LET j == CHOOSE x \in rest : \A y \in rest : x <= y
                 e == h.act[j]
                 postMoveRange == InRangeActors(h.tok, e)
                 gone == SeqOfSet(h.pre[e] \ postMoveRange)
                 Found(a) == IF HasOrigin(a, e) THEN <<Head(FindOrigin(a, e))>> ELSE <<>>
                 toDelete == Flat([i \in 1..Len(gone) |-> Found(gone[i])])
                 additionalDeletion == AppliedElsewhere(present, Range(h.inact))
             IN  IF \/ ActorlessNearby(h.tok, <<e>>)
                    \/ NoActor \in h.pre[e] \ postMoveRange
                 THEN Thrown
                 ELSE removeAndReplaceAuras([h EXCEPT !.i = j, !.post = postMoveRange],
                                            toDelete \o additionalDeletion, "mvIter")

\* lines 248-253, then the next iteration
MvIter(h) ==
    LET e == h.act[h.i]
        map == IF isFinalMovementComplete(h.tok)
               THEN ConcatAll(h.map, ToAddTo(h.tok, e, h.post), e)
               ELSE h.map
    IN  MvBody([h EXCEPT !.map = map, !.i = h.i + 1, !.post = {}])

\* where a handler goes on after an await
Continue(h, k) ==
    CASE k = "end"       -> Finished
      [] k = "areRemove" -> removeAndReplaceAuras(h, h.del, "end")
      [] k = "uaeRemove" -> IF h.del # <<>>
                            THEN removeAndReplaceAuras(h, h.del, "end")
                            ELSE Finished
      [] k = "mvBody"    -> MvBody(h)
      [] k = "mvIter"    -> MvIter(h)
      [] k = "mvDelta"   -> MvDelta(h)
      [] k = "mvAdd"     -> MvAdd(h)

\* the second part of removeAndReplaceAuras, after the delete query
ReplaceStep(h) ==
    LET map == newBestApplyMap(EmptyMap, h.names)
        g == [h EXCEPT !.names = <<>>, !.ret = "none"]
    IN  IF isEmpty(map) THEN Continue(g, h.ret)
        ELSE AskApply(g, map, "replace", h.ret)

Run(h) == IF h.k = "rrApply" THEN ReplaceStep(h) ELSE Continue(h, h.k)

----------------------------------------------------------------------------
(* The handlers, from the hook call to their first await.                  *)
(* c is the hook call: [kind, u, tok, eff, upd, actor, modifies, fromAura, *)
(* aura, origin]; s is the session the handler runs on.                    *)

NewHandler(c, s, hid) ==
    [Blank EXCEPT !.hid = hid, !.kind = c.kind, !.user = s, !.tok = c.tok, !.eff = c.eff,
                  !.upd = c.upd]

\* the loop of addRemoveEffect over the actor's active source effects
RECURSIVE AreLoop(_, _, _)
AreLoop(acc, mainToken, effects) ==
    IF effects = <<>> THEN acc
    ELSE LET e == Head(effects)
             nearby == getNearbyTokens(mainToken, srcs[e].radius, -1, srcs[e].filter,
                                       srcs[e].collisionTypes)
             shouldHave == SelectSeq(nearby,
                               LAMBDA t : t # mainToken /\ executeScript(mainToken, t, e))
             toAddTo == SelectSeq([i \in 1..Len(shouldHave) |-> actorOf[shouldHave[i]]],
                                  LAMBDA a : ~HasOrigin(a, e))
             shouldNotHave == SelectSeq(nearby, LAMBDA t : t \notin Range(shouldHave))
             Bad(t) == IF HasOrigin(actorOf[t], e)
                       THEN <<Head(FindOrigin(actorOf[t], e))>> ELSE <<>>
         IN  AreLoop([map |-> ConcatAll(acc.map, toAddTo, e),
                      del |-> acc.del
                                \o Flat([i \in 1..Len(shouldNotHave) |-> Bad(shouldNotHave[i])])],
                     mainToken, Tail(effects))

NeverFromAura(c) == FALSE

\* foundry.utils.getProperty(effect, 'flags.auraeffects.fromAura')
IsFromAura(c) == c.fromAura

addRemoveEffect(c, s, hid) ==
    IF ~c.modifies THEN Finished
    ELSE IF IsFromAura(c) THEN Finished
    ELSE IF NotInitiator(s, c.u) THEN Finished
    ELSE IF ~gm THEN NoGM
    ELSE IF ActiveTokens(c.actor) = <<>> THEN Finished
    ELSE IF ActorlessNearby(Head(ActiveTokens(c.actor)), ActiveAuras(c.actor)) THEN Thrown
    ELSE LET mainToken == Head(ActiveTokens(c.actor))
             own == AreLoop([map |-> EmptyMap, del |-> <<>>], mainToken,
                            ActiveAuras(c.actor))
             d == getChangingSceneAuras(mainToken)
             map == Concat(own.map, actorOf[mainToken], d.add)
             toDelete == own.del \o d.rem
             h == [NewHandler(c, s, hid) EXCEPT !.tok = mainToken]
         IN  IF ~isEmpty(map)
             THEN AskApply([h EXCEPT !.del = toDelete], map, "direct", "areRemove")
             ELSE removeAndReplaceAuras(h, toDelete, "end")

createToken(c, s, hid) ==
    IF NotInitiator(s, c.u) THEN Finished
    ELSE IF ~gm THEN NoGM
    ELSE IF actorOf[c.tok] = NoActor THEN Finished
    ELSE IF ActorlessNearby(c.tok, Radiating(ActiveAuras(actorOf[c.tok]))) THEN Thrown
    ELSE LET map == InRangeMap(EmptyMap, c.tok, ActiveAuras(actorOf[c.tok]))
         IN  IF isEmpty(map) THEN Finished
             ELSE AskApply(NewHandler(c, s, hid), map, "direct", "end")

deleteToken(c, s, hid) ==
    IF NotInitiator(s, c.u) THEN Finished
    ELSE IF actorOf[c.tok] = NoActor THEN Finished
    ELSE IF ~gm THEN NoGM
    ELSE LET auraSourceUuids == Range(ActiveAuras(actorOf[c.tok]))
             toRemoveAppliedEffects ==
                 AppliedElsewhere({t \in present : actorOf[t] # actorOf[c.tok]}, auraSourceUuids)
         IN  removeAndReplaceAuras(NewHandler(c, s, hid), toRemoveAppliedEffects, "end")

updateToken(c, s, hid) ==
    IF NotInitiator(s, c.u) THEN Finished
    ELSE IF ~gm THEN NoGM
    ELSE IF actorOf[c.tok] = NoActor THEN Finished
    ELSE LET h == NewHandler(c, s, hid)
             toRemoveSourceEffects ==
                 {e \in Range(InactiveAuras(actorOf[c.tok])) : srcs[e].doh}
             toRemoveAppliedEffects ==
                 AppliedElsewhere(present \ {c.tok}, toRemoveSourceEffects)
             map == InRangeMap(EmptyMap, c.tok, ActiveAuras(actorOf[c.tok]))
         IN  CASE c.upd \in {"hide", "hideMove"} ->
                    IF toRemoveAppliedEffects # <<>>
                    THEN removeAndReplaceAuras(h, toRemoveAppliedEffects, "end")
                    ELSE Finished
               [] c.upd = "show" ->
                    IF ActorlessNearby(c.tok, Radiating(ActiveAuras(actorOf[c.tok])))
                    THEN Thrown
                    ELSE IF isEmpty(map) THEN Finished
                    ELSE AskApply(h, map, "direct", "end")
               [] OTHER -> Finished

SkipAnimation(h) == [h EXCEPT !.pc = "ready", !.k = "mvBody"]

\* await token.object.movementAnimationPromise
AwaitAnimation(h) == [h EXCEPT !.pc = "anim", !.k = "mvBody"]

\* up to the await of the animation
moveToken(c, s, hid) ==
    IF NotInitiator(s, c.u) THEN Finished
    ELSE IF ~gm THEN NoGM
    ELSE IF actorOf[c.tok] = NoActor THEN Finished
    ELSE LET act == ActiveAuras(actorOf[c.tok])
             Pre(e) == IF e \in Range(act) /\ srcs[e].radius # 0
                       THEN {actorOf[t] : t \in Range(getNearbyTokens(
                                c.tok, srcs[e].radius, c.origin, srcs[e].filter,
                                srcs[e].collisionTypes))}
                       ELSE {}
         IN  [Finished EXCEPT !.hs =
                {AwaitAnimation([NewHandler(c, s, hid) EXCEPT
                    !.i = 1, !.act = act,
                    !.inact = InactiveAuras(actorOf[c.tok]),
                    !.pre = [e \in Src |-> Pre(e)]])}]

updateActiveEffect(c, s, hid) ==
    IF NotInitiator(s, c.u) THEN Finished
    ELSE IF ~c.aura THEN Finished
    ELSE IF ActiveTokens(srcs[c.eff].owner) = <<>> THEN Finished
    ELSE IF ~gm THEN NoGM
    ELSE LET e == c.eff
             actor == srcs[e].owner
             token == Head(ActiveTokens(actor))
             h == [NewHandler(c, s, hid) EXCEPT !.tok = token]
             all == AppliedElsewhere({t \in present : actorOf[t] # actor}, {e})
             tokensInRange ==
                 SelectSeq(getNearbyTokens(token, srcs[e].radius, -1, srcs[e].filter,
                                           srcs[e].collisionTypes),
                           LAMBDA t : t # token /\ actorOf[t] # actorOf[token])
             shouldHave ==
                 {actorOf[t] : t \in {n \in Range(tokensInRange) :
                                        executeScript(token, n, e)}}
             toRemoveAppliedEffects == SelectSeq(all, LAMBDA x : x.actor \notin shouldHave)
             toAddTo == {a \in shouldHave : ~HasOrigin(a, e)}
             actorToEffectsMap == [a \in Holders |-> IF a \in toAddTo THEN <<e>> ELSE <<>>]
         IN  IF c.upd = "disable"
             THEN IF all # <<>> THEN removeAndReplaceAuras(h, all, "end") ELSE Finished
             ELSE IF srcs[e].radius = 0 THEN Finished
             ELSE IF ActorlessNearby(token, <<e>>) THEN Thrown
             ELSE IF ~isEmpty(actorToEffectsMap)
                  THEN AskApply([h EXCEPT !.del = toRemoveAppliedEffects],
                                actorToEffectsMap, "direct", "uaeRemove")
                  ELSE Continue([h EXCEPT !.del = toRemoveAppliedEffects], "uaeRemove")

deleteActiveEffect(c, s, hid) ==
    IF NotInitiator(s, c.u) THEN Finished
    ELSE IF ~c.aura THEN Finished
    ELSE IF ~gm THEN NoGM
    ELSE LET actor == srcs[c.eff].owner
             toRemoveAppliedEffects ==
                 AppliedElsewhere({t \in present : actorOf[t] # actor}, {c.eff})
         IN  removeAndReplaceAuras(NewHandler(c, s, hid), toRemoveAppliedEffects, "end")

Handle(c, s, hid) ==
    CASE c.kind = "addRemoveEffect"    -> addRemoveEffect(c, s, hid)
      [] c.kind = "createToken"        -> createToken(c, s, hid)
      [] c.kind = "deleteToken"        -> deleteToken(c, s, hid)
      [] c.kind = "updateToken"        -> updateToken(c, s, hid)
      [] c.kind = "moveToken"          -> moveToken(c, s, hid)
      [] c.kind = "updateActiveEffect" -> updateActiveEffect(c, s, hid)
      [] c.kind = "deleteActiveEffect" -> deleteActiveEffect(c, s, hid)

----------------------------------------------------------------------------
(* Sessions and hook calls *)

\* the sessions that run the hooks: every player, and the GM while connected
ActiveSessions == IF gm THEN <<"gm", "p1", "p2">> ELSE <<"p1", "p2">>

\* the users that change documents here; p2 only looks on
ActiveUsers == Range(ActiveSessions) \ {"p2"}

Call(kind, u) ==
    [kind |-> kind, u |-> u, tok |-> 0, eff |-> 0, upd |-> "none", actor |-> NoActor,
     modifies |-> TRUE, fromAura |-> FALSE, aura |-> FALSE, origin |-> -1]

WarnAlways(seen, warns, s) ==
    [seen |-> seen,
     warns |-> [warns EXCEPT ![s] = IF @ < MaxWarn THEN @ + 1 ELSE @]]

\* if (!seenWarning) { ui.notifications.warn(...); seenWarning = true; }
WarnOnce(seen, warns, s) ==
    IF seen[s] THEN [seen |-> seen, warns |-> warns]
    ELSE [seen |-> [seen EXCEPT ![s] = TRUE],
          warns |-> [warns EXCEPT ![s] = IF @ < MaxWarn THEN @ + 1 ELSE @]]

FreshHid(hs) == FreshId({h.hid : h \in hs})

\* what the handler of one session adds to what the sessions before it did
Merge(acc, out, s) ==
    [hs |-> acc.hs \cup out.hs, qs |-> acc.qs \cup out.qs,
     err |-> acc.err \/ out.err, direct |-> acc.direct \cup out.direct,
     seen |-> IF out.warn THEN WarnOnce(acc.seen, acc.warns, s).seen ELSE acc.seen,
     warns |-> IF out.warn THEN WarnOnce(acc.seen, acc.warns, s).warns ELSE acc.warns]

\* Hooks.callAll: the handler runs on every session, one after the other
RECURSIVE RunSessions(_, _, _)
RunSessions(c, sessions, acc) ==
    IF sessions = <<>> THEN acc
    ELSE RunSessions(c, Tail(sessions),
             Merge(acc, Handle(c, Head(sessions), FreshHid(handlers \cup acc.hs)),
                   Head(sessions)))

----------------------------------------------------------------------------
(* Steps *)

Quiet == hooks = <<>>
Event == Quiet /\ budget > 0 /\ budget' = budget - 1

\* the hook call at the head of the list runs on every session
RunHook ==
    /\ hooks # <<>>
    /\ \E r \in {RunSessions(Head(hooks), ActiveSessions,
                    [hs |-> {}, qs |-> {}, err |-> FALSE, direct |-> {},
                     seen |-> seenWarning, warns |-> warnings])} :
           /\ handlers' = handlers \cup r.hs
           /\ queries' = queries \cup r.qs
           /\ raised' = (raised \/ r.err)
           /\ applied' = {x \in applied : x.id \notin r.direct}
           /\ seenWarning' = r.seen
           /\ warnings' = r.warns
    /\ hooks' = Tail(hooks)
    /\ UNCHANGED <<world, gm, probe, budget>>

\* a suspended handler goes on from its await
Resume(h) ==
    /\ Quiet
    /\ h.pc = "ready"
    /\ \E r \in {Run(h)} :
           /\ handlers' = (handlers \ {h}) \cup r.hs
           /\ queries' = queries \cup r.qs
           /\ raised' = (raised \/ r.err)
           /\ applied' = {x \in applied : x.id \notin r.direct}
    /\ UNCHANGED <<world, gm, seenWarning, warnings, hooks, probe, budget>>

\* the active GM serves one query and answers it
Authority(q) ==
    /\ Quiet
    /\ gm
    /\ applied' = IF q.type = "apply" THEN applyAuraEffects(q.map) ELSE deleteEffects(q.ids)
    /\ queries' = queries \ {q}
    /\ handlers' = {IF h.hid = q.hid THEN [h EXCEPT !.pc = "ready"] ELSE h : h \in handlers}
    /\ UNCHANGED <<world, gm, seenWarning, warnings, raised, hooks, probe, budget>>

\* token.object.movementAnimationPromise resolves
AnimationDone(t) ==
    /\ Quiet
    /\ t \in animating
    /\ animating' = animating \ {t}
    /\ handlers' = {IF h.pc = "anim" /\ h.tok = t THEN [h EXCEPT !.pc = "ready"] ELSE h
                      : h \in handlers}
    /\ UNCHANGED <<actorOf, disp, present, pos, hidden, mv, srcs, flag, grid, engine, canvas,
                   applied, gm, seenWarning, warnings, queries, raised, hooks, probe, budget>>

Rest == <<grid, engine, canvas, applied, gm, seenWarning, warnings, handlers, queries, raised,
          probe>>

CreateTokenEvent(t, u) ==
    /\ Event
    /\ t \notin present
    /\ present' = present \cup {t}
    /\ hidden' = [hidden EXCEPT ![t] = FALSE]
    /\ mv' = [mv EXCEPT ![t] = [origin |-> pos[t], dest |-> pos[t], pend |-> FALSE,
                                state |-> "completed"]]
    /\ hooks' = <<[Call("createToken", u) EXCEPT !.tok = t]>>
    /\ UNCHANGED <<actorOf, disp, pos, animating, srcs, flag, Rest>>

DeleteTokenEvent(t, u) ==
    /\ Event
    /\ t \in present
    /\ t \notin animating
    /\ present' = present \ {t}
    /\ hooks' = <<[Call("deleteToken", u) EXCEPT !.tok = t]>>
    /\ UNCHANGED <<actorOf, disp, pos, hidden, mv, animating, srcs, flag, Rest>>

HideShowEvent(t, u) ==
    /\ Event
    /\ t \in present
    /\ hidden' = [hidden EXCEPT ![t] = ~@]
    /\ hooks' = <<[Call("updateToken", u) EXCEPT
                     !.tok = t, !.upd = IF hidden[t] THEN "show" ELSE "hide"]>>
    /\ UNCHANGED <<actorOf, disp, present, pos, mv, animating, srcs, flag, Rest>>

\* one leg of a movement: the document jumps to the waypoint, the placeable animates
MoveEvent(t, p, st, u) ==
    /\ Event
    /\ t \in present
    /\ t \notin animating
    /\ \A h \in handlers : ~(h.tok = t /\ h.pc = "ready" /\ h.k = "mvBody")
    /\ Abs(p - pos[t]) = 1
    /\ pos' = [pos EXCEPT ![t] = p]
    /\ mv' = [mv EXCEPT ![t] = [origin |-> pos[t], dest |-> p, pend |-> st # "completed",
                                state |-> st]]
    /\ animating' = animating \cup {t}
    /\ hooks' = <<[Call("updateToken", u) EXCEPT !.tok = t, !.upd = "move"],
                  [Call("moveToken", u) EXCEPT !.tok = t, !.origin = pos[t]]>>
    /\ UNCHANGED <<actorOf, disp, present, hidden, srcs, flag, Rest>>

\* one update that hides a token and moves it by one cell
HideMoveEvent(t, p, u) ==
    /\ Event
    /\ t \in present
    /\ t \notin animating
    /\ ~hidden[t]
    /\ \A h \in handlers : ~(h.tok = t /\ h.pc = "ready" /\ h.k = "mvBody")
    /\ Abs(p - pos[t]) = 1
    /\ hidden' = [hidden EXCEPT ![t] = TRUE]
    /\ pos' = [pos EXCEPT ![t] = p]
    /\ mv' = [mv EXCEPT ![t] = [origin |-> pos[t], dest |-> p, pend |-> FALSE,
                                state |-> "completed"]]
    /\ animating' = animating \cup {t}
    /\ hooks' = <<[Call("updateToken", u) EXCEPT !.tok = t, !.upd = "hideMove"],
                  [Call("moveToken", u) EXCEPT !.tok = t, !.origin = pos[t]]>>
    /\ UNCHANGED <<actorOf, disp, present, srcs, flag, Rest>>

\* an effect that is not an aura is created on, or deleted from, an actor
PlainEffectEvent(a, u) ==
    /\ Event
    /\ flag' = [flag EXCEPT ![a] = ~@]
    /\ hooks' = <<[Call("addRemoveEffect", u) EXCEPT !.actor = a]>>
    /\ UNCHANGED <<actorOf, disp, present, pos, hidden, mv, animating, srcs, Rest>>

EnableDisableEvent(e, u) ==
    /\ Event
    /\ srcs[e].exists
    /\ srcs' = [srcs EXCEPT ![e].disabled = ~@]
    /\ hooks' = <<[Call("updateActiveEffect", u) EXCEPT
                     !.eff = e, !.aura = TRUE,
                     !.upd = IF srcs[e].disabled THEN "enable" ELSE "disable"]>>
    /\ UNCHANGED <<actorOf, disp, present, pos, hidden, mv, animating, flag, Rest>>

\* an update of the system data that changes none of the fields read here
SystemUpdateEvent(e, u) ==
    /\ Event
    /\ srcs[e].exists
    /\ hooks' = <<[Call("updateActiveEffect", u) EXCEPT
                     !.eff = e, !.aura = TRUE, !.upd = "system"]>>
    /\ UNCHANGED <<world, Rest>>

CreateSourceEvent(e, u) ==
    /\ Event
    /\ ~srcs[e].exists
    /\ srcs' = [srcs EXCEPT ![e].exists = TRUE]
    /\ hooks' = <<[Call("addRemoveEffect", u) EXCEPT
                     !.eff = e, !.aura = TRUE, !.actor = srcs[e].owner,
                     !.modifies = ~srcs[e].disabled /\ ~IsSuppressed(e)]>>
    /\ UNCHANGED <<actorOf, disp, present, pos, hidden, mv, animating, flag, Rest>>

DeleteSourceEvent(e, u) ==
    /\ Event
    /\ srcs[e].exists
    /\ srcs' = [srcs EXCEPT ![e].exists = FALSE]
    /\ hooks' = <<[Call("addRemoveEffect", u) EXCEPT
                     !.eff = e, !.aura = TRUE, !.actor = srcs[e].owner,
                     !.modifies = ~srcs[e].disabled /\ ~IsSuppressed(e)],
                  [Call("deleteActiveEffect", u) EXCEPT !.eff = e, !.aura = TRUE]>>
    /\ UNCHANGED <<actorOf, disp, present, pos, hidden, mv, animating, flag, Rest>>

\* the GM connects or disconnects; what the GM's own session was running ends with it
AuthorityEvent ==
    /\ Event
    /\ gm' = ~gm
    /\ handlers' = IF gm THEN {h \in handlers : h.user # "gm"} ELSE handlers
    /\ queries' = IF gm THEN {q \in queries : q.user # "gm"} ELSE queries
    /\ seenWarning' = [seenWarning EXCEPT !["gm"] = FALSE]
    /\ UNCHANGED <<world, applied, warnings, raised, hooks, probe>>

----------------------------------------------------------------------------
(* The specification *)

\* no token drawn yet: const tokenAuras = new Map(), and canvasInit's empty Collection
NoCanvas ==
    [object |-> [t \in Tokens |-> 0], drawn |-> [t \in Tokens |-> 0], destroyed |-> {},
     tokenAuras |-> {}, auras |-> {}, auraEffects |-> {},
     disableVisuals |-> FALSE, showRadius |-> {}]

Source(owner, name, formula, total, doh, script) ==
    [owner |-> owner, exists |-> TRUE, disabled |-> FALSE, radius |-> 1, filter |-> 0,
     name |-> name, formula |-> formula, total |-> total, applyToSelf |-> FALSE,
     doh |-> doh, script |-> script, collisionTypes |-> <<>>]

NoProbe ==
    [op |-> "none", tok |-> 0, eff |-> 0, res |-> "none", map |-> EmptyMap, names |-> <<>>,
     args |-> <<>>, val |-> 0, toks |-> <<>>, rem |-> <<>>]

Still(p) == [origin |-> p, dest |-> p, pend |-> FALSE, state |-> "completed"]

\* a square grid of unit cells without walls, every token one cell wide
OpenGrid ==
    [gridless |-> FALSE, distance |-> 1, walls |-> [type \in Types |-> {}],
     width |-> [t \in Tokens |-> 1]]

\* a scene at rest: token 3 stands next to token 1 and holds the clone of its aura;
\* token 4, a second token of actor 3, is not on the scene yet,
\* and actor 3 has no aura of its own yet
\* (one aura only has no best-formula, so no sort here depends on the engine)
AtRest ==
    /\ actorOf = [t \in Tokens |-> IF t = 4 THEN 3 ELSE t]
    /\ disp = [t \in Tokens |-> 1]
    /\ present = {1, 2, 3}
    /\ pos = [t \in Tokens |-> CASE t = 1 -> 0 [] t = 2 -> 3 [] t = 3 -> 1 [] OTHER -> 2]
    /\ hidden = [t \in Tokens |-> FALSE]
    /\ mv = [t \in Tokens |-> Still(pos[t])]
    /\ animating = {}
    /\ srcs = [e \in Src |->
                 CASE e = 1 -> Source(1, "Bless", TRUE, 3, TRUE, "none")
                   [] e = 2 -> Source(2, "Bless", FALSE, 0, FALSE, "flag")
                   [] OTHER -> [Source(3, "Bless", TRUE, 2, FALSE, "none")
                                   EXCEPT !.exists = FALSE]]
    /\ flag = [a \in Actors |-> TRUE]
    /\ grid = OpenGrid
    /\ engine = "PivotFirst"
    /\ canvas = NoCanvas
    /\ applied = {[id |-> 1, actor |-> 3, origin |-> 1, name |-> "Bless"]}
    /\ seenWarning = [u \in Users |-> FALSE]
    /\ warnings = [u \in Users |-> 0]
    /\ handlers = {}
    /\ queries = {}
    /\ raised = FALSE
    /\ hooks = <<>>
    /\ probe = NoProbe

Init == AtRest /\ gm = TRUE /\ budget = MaxEvents

Next ==
    \/ RunHook
    \/ \E h \in handlers : Resume(h)
    \/ \E q \in queries : Authority(q)
    \/ \E t \in Tokens : AnimationDone(t)
    \/ \E t \in Tokens, u \in ActiveUsers : CreateTokenEvent(t, u)
    \/ \E t \in Tokens, u \in ActiveUsers : DeleteTokenEvent(t, u)
    \/ \E t \in Tokens, u \in ActiveUsers : HideShowEvent(t, u)
    \/ \E t \in Tokens, p \in Cells, st \in {"pending", "completed", "stopped"},
          u \in ActiveUsers : MoveEvent(t, p, st, u)
    \/ \E t \in Tokens, p \in Cells, u \in ActiveUsers : HideMoveEvent(t, p, u)
    \/ \E a \in Actors, u \in ActiveUsers : PlainEffectEvent(a, u)
    \/ \E e \in Src, u \in ActiveUsers : EnableDisableEvent(e, u)
    \/ \E e \in Src, u \in ActiveUsers : SystemUpdateEvent(e, u)
    \/ \E e \in Src, u \in ActiveUsers : CreateSourceEvent(e, u)
    \/ \E e \in Src, u \in ActiveUsers : DeleteSourceEvent(e, u)
    \/ AuthorityEvent

Spec == Init /\ [][Next]_vars

\* the triggers of the token and source effect lifecycle alone, the GM staying
NextLifecycle ==
    \/ RunHook
    \/ \E h \in handlers : Resume(h)
    \/ \E q \in queries : Authority(q)
    \/ \E t \in Tokens : AnimationDone(t)
    \/ \E t \in Tokens, u \in ActiveUsers : CreateTokenEvent(t, u)
    \/ \E t \in Tokens, u \in ActiveUsers : DeleteTokenEvent(t, u)
    \/ \E t \in Tokens, u \in ActiveUsers : HideShowEvent(t, u)
    \/ \E t \in Tokens, p \in Cells, st \in {"pending", "completed", "stopped"},
          u \in ActiveUsers : MoveEvent(t, p, st, u)
    \/ \E t \in Tokens, p \in Cells, u \in ActiveUsers : HideMoveEvent(t, p, u)
    \/ \E e \in Src, u \in ActiveUsers : EnableDisableEvent(e, u)
    \/ \E e \in Src, u \in ActiveUsers : CreateSourceEvent(e, u)
    \/ \E e \in Src, u \in ActiveUsers : DeleteSourceEvent(e, u)

SpecLifecycle == Init /\ [][NextLifecycle]_vars

\* nothing is running: every handler has ended and every query is answered
Idle == hooks = <<>> /\ handlers = {} /\ queries = {} /\ animating = {}

\* one trigger at a time: a document changes only when the last change is handled
NextSerial ==
    \/ RunHook
    \/ \E h \in handlers : Resume(h)
    \/ \E q \in queries : Authority(q)
    \/ \E t \in Tokens : AnimationDone(t)
    \/ Idle /\ \E t \in Tokens, u \in ActiveUsers : CreateTokenEvent(t, u)
    \/ Idle /\ \E t \in Tokens, u \in ActiveUsers : DeleteTokenEvent(t, u)
    \/ Idle /\ \E t \in Tokens, u \in ActiveUsers : HideShowEvent(t, u)
    \/ Idle /\ \E t \in Tokens, p \in Cells, st \in {"pending", "completed", "stopped"},
                  u \in ActiveUsers : MoveEvent(t, p, st, u)
    \/ Idle /\ \E t \in Tokens, p \in Cells, u \in ActiveUsers : HideMoveEvent(t, p, u)
    \/ Idle /\ \E a \in Actors, u \in ActiveUsers : PlainEffectEvent(a, u)
    \/ Idle /\ \E e \in Src, u \in ActiveUsers : EnableDisableEvent(e, u)
    \/ Idle /\ \E e \in Src, u \in ActiveUsers : SystemUpdateEvent(e, u)
    \/ Idle /\ \E e \in Src, u \in ActiveUsers : CreateSourceEvent(e, u)
    \/ Idle /\ \E e \in Src, u \in ActiveUsers : DeleteSourceEvent(e, u)
    \/ Idle /\ AuthorityEvent

\* the session opens with or without a GM connected
InitSerial == AtRest /\ gm \in BOOLEAN /\ budget = MaxEvents + 1

SpecSerial == InitSerial /\ [][NextSerial]_vars

----------------------------------------------------------------------------
(* The two helpers on their own, over the scenes that can be at rest *)

\* the clones a scene at rest holds: one per actor and source effect that reaches it
SteadyClones ==
    {[id |-> 3 * (a - 1) + e, actor |-> a, origin |-> e, name |-> DisplayName(e)] :
        <<a, e>> \in {p \in Actors \X Src :
                        /\ srcs[p[2]].exists /\ ~srcs[p[2]].disabled
                        /\ srcs[p[2]].radius # 0
                        /\ p[1] # srcs[p[2]].owner
                        /\ \E s \in present : \E t \in present :
                              /\ actorOf[s] = srcs[p[2]].owner
                              /\ actorOf[t] = p[1]
                              /\ Abs(pos[s] - pos[t]) <= srcs[p[2]].radius}}

InitScene ==
    /\ actorOf = [t \in Tokens |-> IF t = 4 THEN 3 ELSE t]
    /\ disp = [t \in Tokens |-> 1]
    /\ present = Tokens
    /\ pos \in {f \in [Tokens -> Cells] : f[1] = 0}
    /\ hidden = [t \in Tokens |-> FALSE]
    /\ mv = [t \in Tokens |-> Still(pos[t])]
    /\ animating = {}
    /\ \E f \in [Src -> BOOLEAN], x \in BOOLEAN, n \in {1, 3}, r \in {0, 1} :
          srcs = [e \in Src |->
                    CASE e = 1 -> Source(1, "Bless", f[1], 2, FALSE, "none")
                      [] e = 2 -> [Source(2, "Bless", f[2], n, FALSE, "none")
                                      EXCEPT !.radius = r]
                      [] OTHER -> [Source(3, "Bless", f[3], 3, FALSE, "none")
                                      EXCEPT !.exists = x]]
    /\ flag = [a \in Actors |-> TRUE]
    /\ grid = OpenGrid
    /\ engine \in Engines
    /\ canvas = NoCanvas
    /\ applied = SteadyClones
    /\ gm = TRUE
    /\ seenWarning = [u \in Users |-> FALSE]
    /\ warnings = [u \in Users |-> 0]
    /\ handlers = {}
    /\ queries = {}
    /\ raised = FALSE
    /\ hooks = <<>>
    /\ probe = NoProbe
    /\ budget = 0

Untouched == <<world, gm, seenWarning, warnings, handlers, queries, raised, hooks, budget>>

\* getChangingSceneAuras(token), its removals deleted and its additions applied
DeltaPass(token) ==
    /\ probe.op = "none"
    /\ token \in present
    /\ \E d \in {getChangingSceneAuras(token)} :
          applied' = ApplyPairs(deleteEffects({x.id : x \in Range(d.rem)}),
                                [i \in 1..Len(d.add) |-> <<actorOf[token], d.add[i]>>])
    /\ probe' = [NoProbe EXCEPT !.op = "delta", !.tok = token,
                                !.map = Concat(EmptyMap, actorOf[token],
                                               getChangingSceneAuras(token).add),
                                !.rem = getChangingSceneAuras(token).rem]
    /\ UNCHANGED Untouched

\* the loop of addRemoveEffect over the active source effects of an actor,
\* its additions applied and its removals deleted
SourcePass(a) ==
    /\ probe.op = "none"
    /\ ActiveTokens(a) # <<>>
    /\ \E r \in {AreLoop([map |-> EmptyMap, del |-> <<>>], Head(ActiveTokens(a)),
                          ActiveAuras(a))} :
          /\ applied' = ApplyPairs(deleteEffects({x.id : x \in Range(r.del)}),
                                   MapPairs(r.map))
          /\ probe' = [NoProbe EXCEPT !.op = "source", !.tok = Head(ActiveTokens(a)),
                                      !.map = r.map]
    /\ UNCHANGED Untouched

\* one run of removeAndReplaceAuras(effects, scene), both queries served
BestOfPass(effects) ==
    /\ probe.op = "none"
    /\ effects # <<>>
    /\ \E names \in {effectToRemovedMap(<<>>, effects)} :
       \E map \in {newBestApplyMap(EmptyMap, names)} :
          /\ applied' = ApplyPairs(deleteEffects({x.id : x \in Range(effects)}),
                                   MapPairs(map))
          /\ probe' = [NoProbe EXCEPT !.op = "bestof", !.map = map, !.names = names]
    /\ UNCHANGED Untouched

NextScene ==
    \/ \E t \in Tokens : DeltaPass(t)
    \/ \E a \in Actors : SourcePass(a)
    \/ \E x \in applied : BestOfPass(<<x>>)
    \/ \E e \in Src : BestOfPass(EffSeq({x \in applied : x.origin = e}))

SpecScene == InitScene /\ [][NextScene]_vars

----------------------------------------------------------------------------
(* The predicate evaluator on its own, over every kind of script text *)

Scripts == {"none", "flag", "throws", "syntax"}

InitScript ==
    /\ actorOf = [t \in Tokens |-> IF t = 4 THEN 3 ELSE t]
    /\ disp = [t \in Tokens |-> 1]
    /\ present = Tokens
    /\ pos = [t \in Tokens |-> t - 1]
    /\ hidden = [t \in Tokens |-> FALSE]
    /\ mv = [t \in Tokens |-> Still(pos[t])]
    /\ animating = {}
    /\ \E f \in [Src -> Scripts] :
          srcs = [e \in Src |-> Source(e, "Bless", FALSE, 0, FALSE, f[e])]
    /\ flag \in [Actors -> BOOLEAN]
    /\ grid = OpenGrid
    /\ engine = "PivotFirst"
    /\ canvas = NoCanvas
    /\ applied = {}
    /\ gm = TRUE
    /\ seenWarning = [u \in Users |-> FALSE]
    /\ warnings = [u \in Users |-> 0]
    /\ handlers = {}
    /\ queries = {}
    /\ raised = FALSE
    /\ hooks = <<>>
    /\ probe = NoProbe
    /\ budget = 0

\* one call executeScript(sourceToken, token, effect)
ScriptPass(sourceToken, token, e) ==
    /\ probe.op = "none"
    /\ sourceToken # token
    /\ probe' = [NoProbe EXCEPT !.op = "script", !.tok = token, !.eff = e,
                                !.res = executeScriptResult(sourceToken, token, e)]
    /\ UNCHANGED <<applied, Untouched>>

NextScript ==
    \E sourceToken \in Tokens, token \in Tokens, e \in Src : ScriptPass(sourceToken, token, e)

SpecScript == InitScript /\ [][NextScript]_vars

----------------------------------------------------------------------------
(* The geometry module on its own, over gridded and gridless scenes *)

\* no session has run anything yet, and no external event is to come
NothingRunning ==
    /\ gm = TRUE
    /\ seenWarning = [u \in Users |-> FALSE]
    /\ warnings = [u \in Users |-> 0]
    /\ handlers = {}
    /\ queries = {}
    /\ raised = FALSE
    /\ hooks = <<>>
    /\ probe = NoProbe
    /\ budget = 0

\* the collision-type lists of an aura
TypeLists == {<<>>, <<"sight", "move">>}

\* Three tokens, one or two cells wide, the third possibly without an actor.
\* A gridless scene has two distance units per cell, which keeps the centre of
\* every token and its external radius whole numbers.
InitGeometry ==
    /\ \E x \in {3, NoActor} : actorOf = [t \in Tokens |-> IF t = 3 THEN x ELSE IF t = 4 THEN 3 ELSE t]
    /\ \E d \in {-1, 0, 1} : disp = [t \in Tokens |-> IF t = 2 THEN d ELSE IF t = 3 THEN -1 ELSE 1]
    /\ present = {1, 2, 3}
    /\ \E a \in Cells, b \in Cells : pos = [t \in Tokens |-> IF t = 1 THEN a ELSE IF t = 2 THEN b ELSE 2]
    /\ hidden = [t \in Tokens |-> FALSE]
    /\ mv = [t \in Tokens |-> Still(pos[t])]
    /\ animating = {}
    /\ srcs = [e \in Src |-> Source(e, "Bless", FALSE, 0, FALSE, "none")]
    /\ flag = [a \in Actors |-> TRUE]
    /\ \E g \in BOOLEAN, w \in {{}, {1}, {2}}, wa \in {1, 2}, wb \in {1, 2} :
          grid = [gridless |-> g, distance |-> IF g THEN 2 ELSE 1,
                  walls |-> [type \in Types |-> IF type = "move" THEN w ELSE {}],
                  width |-> [t \in Tokens |-> IF t = 1 THEN wa ELSE IF t = 2 THEN wb ELSE 1]]
    /\ engine = "PivotFirst"
    /\ canvas = NoCanvas
    /\ applied = {}
    /\ NothingRunning

\* one call getTokenToTokenDistance(tokenA, tokenB, { origin, collisionTypes })
DistancePass(tokenA, tokenB, origin, collisionTypes) ==
    /\ probe.op = "none"
    /\ probe' = [NoProbe EXCEPT !.op = "distance",
                                !.args = <<tokenA, tokenB, origin, collisionTypes>>,
                                !.val = getTokenToTokenDistance(tokenA, tokenB, origin,
                                                                collisionTypes)]
    /\ UNCHANGED <<applied, Untouched>>

\* one call getNearbyTokens(source, radius, { disposition, collisionTypes })
NearbyPass(source, radius, disposition, collisionTypes) ==
    /\ probe.op = "none"
    /\ probe' = [NoProbe EXCEPT !.op = "nearby",
                                !.args = <<source, radius, disposition, collisionTypes>>,
                                !.toks = getNearbyTokens(source, radius, -1, disposition,
                                                         collisionTypes)]
    /\ UNCHANGED <<applied, Untouched>>

NextGeometry ==
    \/ \E tokenA \in present, tokenB \in present, origin \in {-1, 0, MaxPos},
          collisionTypes \in TypeLists :
            DistancePass(tokenA, tokenB, origin, collisionTypes)
    \/ \E source \in present, radius \in 1..2, disposition \in {-1, 0, 1},
          collisionTypes \in TypeLists :
            NearbyPass(source, radius, disposition, collisionTypes)

SpecGeometry == InitGeometry /\ [][NextGeometry]_vars

----------------------------------------------------------------------------
(* One trigger on a scene where an actor holds the effect it qualifies for *)

OneEvent == 1

\* the clone of source effect e that actor a holds
CloneOf(a, e) == [id |-> 3 * (a - 1) + e, actor |-> a, origin |-> e, name |-> DisplayName(e)]

\* Actor 3 holds the clone of the aura of token 1, which stands next to its
\* token 3; a second token of actor 3 may be on the scene. One document
\* changes and the change is handled to the end.
InitThrash ==
    /\ actorOf = [t \in Tokens |-> IF t = 4 THEN 3 ELSE t]
    /\ disp = [t \in Tokens |-> 1]
    /\ present \in {{1, 2, 3}, Tokens}
    /\ \E a \in {0, 2}, b \in Cells, c \in Cells :
          pos = [t \in Tokens |-> CASE t = 1 -> a [] t = 2 -> b [] t = 3 -> 1 [] OTHER -> c]
    /\ hidden = [t \in Tokens |-> FALSE]
    /\ mv = [t \in Tokens |-> Still(pos[t])]
    /\ animating = {}
    /\ srcs = [e \in Src |->
                 CASE e = 1 -> Source(1, "Bless", TRUE, 3, TRUE, "none")
                   [] e = 2 -> Source(2, "Bless", FALSE, 0, FALSE, "flag")
                   [] OTHER -> [Source(3, "Bless", TRUE, 2, FALSE, "none")
                                   EXCEPT !.exists = FALSE]]
    /\ flag = [a \in Actors |-> TRUE]
    /\ grid = OpenGrid
    /\ engine = "PivotFirst"
    /\ canvas = NoCanvas
    /\ applied = {CloneOf(3, 1)}
    /\ gm = TRUE
    /\ seenWarning = [u \in Users |-> FALSE]
    /\ warnings = [u \in Users |-> 0]
    /\ handlers = {}
    /\ queries = {}
    /\ raised = FALSE
    /\ hooks = <<>>
    /\ probe = NoProbe
    /\ budget = OneEvent

SpecThrash == InitThrash /\ [][NextSerial]_vars

----------------------------------------------------------------------------
(* A scene with a token that has no actor *)

\* Token 4 has no actor; it stands anywhere on the scene or is yet to be
\* created.
InitActorless ==
    /\ actorOf = [t \in Tokens |-> IF t = 4 THEN NoActor ELSE t]
    /\ disp = [t \in Tokens |-> 1]
    /\ present \in {{1, 2, 3}, Tokens}
    /\ \E c \in Cells :
          pos = [t \in Tokens |-> CASE t = 1 -> 0 [] t = 2 -> 3 [] t = 3 -> 1 [] OTHER -> c]
    /\ hidden = [t \in Tokens |-> FALSE]
    /\ mv = [t \in Tokens |-> Still(pos[t])]
    /\ animating = {}
    /\ srcs = [e \in Src |->
                 CASE e = 1 -> Source(1, "Bless", TRUE, 3, TRUE, "none")
                   [] e = 2 -> Source(2, "Bless", FALSE, 0, FALSE, "flag")
                   [] OTHER -> [Source(3, "Bless", TRUE, 2, FALSE, "none")
                                   EXCEPT !.exists = FALSE]]
    /\ flag = [a \in Actors |-> TRUE]
    /\ grid = OpenGrid
    /\ engine = "PivotFirst"
    /\ canvas = NoCanvas
    /\ applied = {CloneOf(3, 1)}
    /\ gm = TRUE
    /\ seenWarning = [u \in Users |-> FALSE]
    /\ warnings = [u \in Users |-> 0]
    /\ handlers = {}
    /\ queries = {}
    /\ raised = FALSE
    /\ hooks = <<>>
    /\ probe = NoProbe
    /\ budget = MaxEvents

\* getAllAuraEffects(t.actor), as the scene delta and the Best-Of search call
\* it for each token t of the scene
RegistryPass(t) ==
    /\ Event
    /\ t \in present
    /\ \E r \in {getAllAuraEffects(actorOf[t])} :
          probe' = [NoProbe EXCEPT !.op = "registry", !.tok = t,
                                  !.args = <<r.active, r.inactive>>,
                                  !.res = IF r.warned THEN "warned" ELSE "none"]
    /\ UNCHANGED <<world, grid, engine, applied, gm, seenWarning, warnings, handlers,
                   queries, raised, hooks>>

NextActorless ==
    \/ RunHook
    \/ \E h \in handlers : Resume(h)
    \/ \E q \in queries : Authority(q)
    \/ \E t \in Tokens : AnimationDone(t)
    \/ Idle /\ \E t \in Tokens, u \in ActiveUsers : CreateTokenEvent(t, u)
    \/ Idle /\ \E t \in Tokens, u \in ActiveUsers : DeleteTokenEvent(t, u)
    \/ Idle /\ \E t \in Tokens, u \in ActiveUsers : HideShowEvent(t, u)
    \/ Idle /\ \E t \in Tokens, p \in Cells, st \in {"pending", "completed", "stopped"},
                  u \in ActiveUsers : MoveEvent(t, p, st, u)
    \/ Idle /\ \E t \in Tokens, p \in Cells, u \in ActiveUsers : HideMoveEvent(t, p, u)
    \/ Idle /\ \E a \in Actors, u \in ActiveUsers : PlainEffectEvent(a, u)
    \/ Idle /\ \E e \in Src, u \in ActiveUsers : EnableDisableEvent(e, u)
    \/ Idle /\ \E e \in Src, u \in ActiveUsers : SystemUpdateEvent(e, u)
    \/ Idle /\ \E e \in Src, u \in ActiveUsers : CreateSourceEvent(e, u)
    \/ Idle /\ \E e \in Src, u \in ActiveUsers : DeleteSourceEvent(e, u)
    \/ Idle /\ AuthorityEvent
    \/ Idle /\ \E t \in Tokens : RegistryPass(t)

SpecActorless == InitActorless /\ [][NextActorless]_vars

----------------------------------------------------------------------------
(* The hooks the GM's own creations and deletions call *)

\* createActiveEffect calls addRemoveEffect; deleteActiveEffect calls
\* addRemoveEffect, then deleteActiveEffect. An applied effect is flagged
\* fromAura and is not of the aura type (it does not emit).
Notices(created, deleted) ==
    [i \in 1..Len(created) |->
        [Call("addRemoveEffect", "gm") EXCEPT !.actor = created[i].actor, !.fromAura = TRUE]]
    \o Flat([i \in 1..Len(deleted) |->
                <<[Call("addRemoveEffect", "gm") EXCEPT
                      !.actor = deleted[i].actor, !.fromAura = TRUE],
                  Call("deleteActiveEffect", "gm")>>])

\* the active GM serves one query; every document it creates or deletes
\* calls the hooks on every session
AuthorityNotifies(q) ==
    /\ Quiet
    /\ gm
    /\ applied' = IF q.type = "apply" THEN applyAuraEffects(q.map) ELSE deleteEffects(q.ids)
    /\ queries' = queries \ {q}
    /\ handlers' = {IF h.hid = q.hid THEN [h EXCEPT !.pc = "ready"] ELSE h : h \in handlers}
    /\ hooks' = Notices(EffSeq(applied' \ applied), EffSeq(applied \ applied'))
    /\ UNCHANGED <<world, gm, seenWarning, warnings, raised, probe, budget>>

NextFeedback ==
    \/ RunHook
    \/ \E h \in handlers : Resume(h)
    \/ \E q \in queries : AuthorityNotifies(q)
    \/ \E t \in Tokens : AnimationDone(t)
    \/ Idle /\ \E t \in Tokens, u \in ActiveUsers : CreateTokenEvent(t, u)
    \/ Idle /\ \E t \in Tokens, u \in ActiveUsers : DeleteTokenEvent(t, u)
    \/ Idle /\ \E t \in Tokens, u \in ActiveUsers : HideShowEvent(t, u)
    \/ Idle /\ \E t \in Tokens, p \in Cells, st \in {"pending", "completed", "stopped"},
                  u \in ActiveUsers : MoveEvent(t, p, st, u)
    \/ Idle /\ \E t \in Tokens, p \in Cells, u \in ActiveUsers : HideMoveEvent(t, p, u)
    \/ Idle /\ \E a \in Actors, u \in ActiveUsers : PlainEffectEvent(a, u)
    \/ Idle /\ \E e \in Src, u \in ActiveUsers : EnableDisableEvent(e, u)
    \/ Idle /\ \E e \in Src, u \in ActiveUsers : SystemUpdateEvent(e, u)
    \/ Idle /\ \E e \in Src, u \in ActiveUsers : CreateSourceEvent(e, u)
    \/ Idle /\ \E e \in Src, u \in ActiveUsers : DeleteSourceEvent(e, u)
    \/ Idle /\ AuthorityEvent

\* something can run: a hook call is waiting, a handler can go on after its
\* await, the GM has a query to serve, or an animation is playing
Runnable ==
    \/ hooks # <<>>
    \/ \E h \in handlers : h.pc = "ready"
    \/ gm /\ queries # {}
    \/ animating # {}

\* a step of RunHook, Resume, AuthorityNotifies or AnimationDone: the steps
\* that are no change of a document, which leave the number of changes alone
Runs == budget' = budget

\* The event loops of the sessions keep running what can run: weak fairness
\* of the steps that run something, WF_vars(Runs), written out with Runnable
\* for the states where such a step is enabled.
SpecFeedback ==
    /\ InitThrash
    /\ [][NextFeedback]_vars
    /\ ([]<>~Runnable \/ []<><<Runs>>_vars)

----------------------------------------------------------------------------
(* The scene delta and the Best-Of search over scenes with dispositions,     *)
(* walls, scripts and applied effects whose origin is gone or inactive       *)

\* Token 3 is the target, next to token 2, whose aura is active; the aura of
\* token 1, one or two cells wide, is active, disabled, deleted or suppressed
\* (its token hidden); actor 3 holds any of the two clones and actor 2 may
\* hold the clone of the first aura. A wall may stand between cells 0 and 1.
InitDelta ==
    /\ actorOf = [t \in Tokens |-> IF t = 4 THEN 3 ELSE t]
    /\ \E d1 \in {-1, 0, 1} :
          disp = [t \in Tokens |-> IF t = 1 THEN d1 ELSE 1]
    /\ present = {1, 2, 3}
    /\ \E a \in Cells : pos = [t \in Tokens |-> IF t = 1 THEN a ELSE IF t = 2 THEN 2 ELSE 1]
    /\ mv = [t \in Tokens |-> Still(pos[t])]
    /\ animating = {}
    /\ \E status \in {"active", "disabled", "deleted", "suppressed"},
          f \in {-1, 0, 1}, c \in TypeLists :
          /\ hidden = [t \in Tokens |-> t = 1 /\ status = "suppressed"]
          /\ srcs = [e \in Src |->
                       CASE e = 1 -> [Source(1, "Bless", TRUE, 3, TRUE, "flag") EXCEPT
                                         !.exists = (status # "deleted"),
                                         !.disabled = (status = "disabled"),
                                         !.filter = f, !.collisionTypes = c]
                         [] e = 2 -> Source(2, "Bless", FALSE, 0, FALSE, "none")
                         [] OTHER -> [Source(3, "Bless", TRUE, 2, FALSE, "none")
                                         EXCEPT !.exists = FALSE]]
    /\ flag \in {f \in [Actors -> BOOLEAN] : f[1] /\ f[2]}
    /\ \E w \in {{}, {1}}, k \in 1..2 :
          grid = [OpenGrid EXCEPT
                     !.walls = [type \in Types |-> IF type = "move" THEN w ELSE {}],
                     !.width = [t \in Tokens |-> IF t = 1 THEN k ELSE 1]]
    /\ engine \in Engines
    /\ canvas = NoCanvas
    /\ applied \in SUBSET {CloneOf(3, 1), CloneOf(3, 2), CloneOf(2, 1)}
    /\ NothingRunning

SpecDelta == InitDelta /\ [][NextScene]_vars

----------------------------------------------------------------------------
(* Properties of the reconciliation *)

SingleWriter ==
    [][applied' # applied =>
          /\ gm
          /\ \E q \in queries :
                /\ q \notin queries'
                /\ applied' = IF q.type = "apply" THEN applyAuraEffects(q.map)
                              ELSE deleteEffects(q.ids)]_vars

\* the GM served a delete query: the clone is gone and its handler can go on
DeleteServed ==
    /\ applied = {}
    /\ \E h \in handlers : h.pc = "ready" /\ h.k = "rrApply"

\* the source effect e is expected on actor a
Expected(a, e) ==
    /\ IsActive(e)
    /\ srcs[e].radius # 0
    /\ a # srcs[e].owner
    /\ \E s \in present : \E t \in present :
          /\ actorOf[s] = srcs[e].owner
          /\ actorOf[t] = a
          /\ getTokenToTokenDistance(s, t, -1, srcs[e].collisionTypes) <= srcs[e].radius
          /\ DispositionMatches(s, t, srcs[e].filter)
          /\ executeScript(s, t, e)

\* nothing is left to run and no movement is left pending
Settled ==
    /\ hooks = <<>> /\ handlers = {} /\ queries = {} /\ animating = {}
    /\ gm /\ ~raised
    /\ \A t \in present : isFinalMovementComplete(t)

\* C3: after any sequence of lifecycle triggers (SpecLifecycle), once every
\* handler and every query has run, with a GM throughout and pending
\* movement resolved, an actor on the scene holds the clone of a source
\* effect exactly when the effect is active, has a radius, belongs to another
\* actor and reaches one of the actor's tokens (distance, disposition, script).
Convergence ==
    Settled =>
        \A a \in Actors : \A e \in Src :
            (\E t \in present : actorOf[t] = a) => (HasOrigin(a, e) <=> Expected(a, e))

\* C4: a handler that finds no active GM at its check sends no query and
\* changes nothing, and a session shows the warning at most once.
NoAuthorityNoOp ==
    [][/\ \A u \in Users : warnings'[u] <= 1
       /\ (hooks # <<>> /\ ~gm) =>
             /\ handlers' = handlers
             /\ queries' = queries
             /\ applied' = applied
             /\ raised' = raised]_vars

\* without a GM, a movement ran its two handlers on p1: one warning, nothing sent
WarnedOnce ==
    /\ ~gm /\ hooks = <<>> /\ animating # {}
    /\ warnings["p1"] = 1
    /\ handlers = {} /\ queries = {}

\* C5: no handler ends with an uncaught error when the GM leaves while the
\* handler is suspended at an await.
NoUncaughtError == ~raised

\* C6: a hook call is handled only on the session of the user that made the
\* change; on every other session it spawns no handler, sends no query and
\* neither shows nor marks the warning.
InitiatorGuard ==
    [][hooks # <<>> =>
          \A s \in Users :
              s # Head(hooks).u =>
                  /\ seenWarning'[s] = seenWarning[s]
                  /\ warnings'[s] = warnings[s]
                  /\ \A h \in handlers' \ handlers : h.user # s
                  /\ \A q \in queries' \ queries : q.user # s]_vars

\* p1 moved a token while the GM and p2 looked on: only p1's session handles it
OnlyInitiatorHandles ==
    /\ gm /\ hooks = <<>>
    /\ \E h \in handlers : h.kind = "moveToken" /\ h.user = "p1"
    /\ \A h \in handlers : h.user = "p1"
    /\ \A q \in queries : q.user = "p1"

\* C7: the handling of a token's movement asks for the creation of applied
\* effects only in an invocation in which the token's movement is final.
MovementAtomicity ==
    \A q \in queries :
        (q.kind = "moveToken" /\ q.type = "apply") => q.final

\* C8: right after the removals of getChangingSceneAuras are deleted and its
\* additions applied, a second call on the same token returns nothing to
\* remove and nothing to add.
DeltaIdempotent ==
    probe.op = "delta" =>
        /\ getChangingSceneAuras(probe.tok).rem = <<>>
        /\ getChangingSceneAuras(probe.tok).add = <<>>

\* the source effects of the emitters that qualify for a target token
QualifyingEffects(targetToken, effectName) ==
    {Head(getSourceEffect(s, effectName)) :
        s \in {s \in present : Qualifies(s, targetToken, effectName)}}

\* a has a best-formula and beats b: b has none, or a lower total
Beats(a, b) == srcs[a].formula /\ (~srcs[b].formula \/ srcs[a].total > srcs[b].total)

\* C9: for every token that loses an effect name in a run of
\* removeAndReplaceAuras and has a qualifying emitter, the replacement given to
\* its actor comes from a qualifying emitter that no other qualifying emitter
\* beats: the higher total wins, and a formula wins over none.
BestOfWinner ==
    probe.op = "bestof" =>
        \A i \in 1..Len(probe.names) : \A t \in Range(probe.names[i].toks) :
            LET q == QualifyingEffects(t, probe.names[i].name)
            IN  q # {} =>
                    \E e \in Range(probe.map[actorOf[t]]) \cap q :
                        \A other \in q : ~Beats(other, e)

\* a run in which two emitters qualified for a token and one beat the other
TwoQualified ==
    /\ probe.op = "bestof"
    /\ \E i \in 1..Len(probe.names) : \E t \in Range(probe.names[i].toks) :
          \E a, b \in QualifyingEffects(t, probe.names[i].name) : Beats(a, b)

\* C10: in one run of removeAndReplaceAuras, an actor that lost an effect name
\* is given at most one replacement source effect of that name.
BestOfUnique ==
    probe.op = "bestof" =>
        \A a \in Actors : \A i \in 1..Len(probe.names) :
            Cardinality({e \in Range(probe.map[a]) :
                            DisplayName(e) = probe.names[i].name}) <= 1

\* C11: a call of executeScript whose script fails to evaluate, by a syntax
\* error in its text or by an error while it runs, returns true and does not
\* throw.
FailOpen ==
    (probe.op = "script" /\ srcs[probe.eff].script \in {"throws", "syntax"})
        => probe.res = "true"

\* the clones of source effect e on the other actors that have a token on the scene
ClonesElsewhere(e) ==
    {x \in applied : /\ x.origin = e
                     /\ x.actor # srcs[e].owner
                     /\ \E t \in present : actorOf[t] = x.actor}

\* the hook call at the head of the list is of this kind and finds a GM
Handled(kind) == hooks # <<>> /\ Head(hooks).kind = kind /\ gm

\* handler h ends in this step
Completes(h) == h.pc = "ready" /\ gm' = gm /\ \A g \in handlers' : g.hid # h.hid

\* C12: when updateActiveEffect handles, on the initiator's session and with a
\* GM, an update that disables source effect E, every clone of E on another
\* actor with a token on the scene is named in a delete request, and when the
\* handler ends no such clone is left.
DisableRemovesClones ==
    [][/\ (Handled("updateActiveEffect") /\ Head(hooks).upd = "disable") =>
             \A x \in ClonesElsewhere(Head(hooks).eff) :
                 \E q \in queries' : q.type = "delete" /\ x.id \in q.ids
       /\ \A h \in handlers :
             (h.kind = "updateActiveEffect" /\ h.upd = "disable" /\ Completes(h)) =>
                 \A x \in applied' : ~(/\ x.origin = h.eff
                                        /\ x.actor # srcs[h.eff].owner
                                        /\ \E t \in present : actorOf[t] = x.actor)]_vars

\* C13: when updateActiveEffect handles a change of the parameters of a source
\* effect that is and stays disabled, the recompute-and-add step is skipped:
\* the handler issues no apply request that names the effect, so no actor
\* gains a clone of it.
NoApplyWhileDisabled ==
    [][(/\ Handled("updateActiveEffect")
        /\ Head(hooks).upd = "system"
        /\ srcs[Head(hooks).eff].disabled) =>
           \A q \in queries' \ queries :
               q.type = "apply" =>
                   \A a \in Actors : Head(hooks).eff \notin Range(q.map[a])]_vars

\* C14: when deleteActiveEffect handles, on the initiator's session and with a
\* GM, the deletion of source effect E, every clone of E on another actor with
\* a token on the scene is named in a delete request, and no apply request of
\* the handler (the Best-Of replacement) names E.
DeleteRemovesClones ==
    [][/\ Handled("deleteActiveEffect") =>
             \A x \in ClonesElsewhere(Head(hooks).eff) :
                 \E q \in queries' : q.type = "delete" /\ x.id \in q.ids
       /\ \A h \in handlers :
             h.kind = "deleteActiveEffect" =>
                 \A q \in queries' \ queries :
                     (q.hid = h.hid /\ q.type = "apply") =>
                         \A a \in Actors : h.eff \notin Range(q.map[a])]_vars

\* the aura of token 1 was deleted, its clone on actor 3 is gone, and the
\* Best-Of step asks for the aura of token 2, which now stands next to token 3
DeletedAndReplaced ==
    /\ ~srcs[1].exists
    /\ ClonesElsewhere(1) = {}
    /\ \E q \in queries :
          /\ q.kind = "deleteActiveEffect" /\ q.via = "replace"
          /\ q.map[3] = <<2>>

\* the clones, on other actors with a token on the scene, of the source
\* effects of the set es
ClonesOf(es) == UNION {ClonesElsewhere(e) : e \in es}

OwedPairs(token) ==
    {p \in Actors \X Src :
        /\ p[2] \in Range(ActiveAuras(actorOf[token]))
        /\ srcs[p[2]].radius # 0
        /\ p[1] # actorOf[token]
        /\ ~HasOrigin(p[1], p[2])
        /\ \E t \in present :
              /\ actorOf[t] = p[1]
              /\ getTokenToTokenDistance(token, t, -1, srcs[p[2]].collisionTypes)
                    <= srcs[p[2]].radius
              /\ DispositionMatches(token, t, srcs[p[2]].filter)
              /\ executeScript(token, t, p[2])}

\* the pairs an apply request names
PairsOf(q) == {p \in Actors \X Src : p[2] \in Range(q.map[p[1]])}

Resumes(h) == h.pc = "ready" /\ gm /\ gm' /\ h \notin handlers'

\* the actors in range of effect e of a token, measured from cell p
ActorsInRangeFrom(token, e, p) ==
    {actorOf[t] : t \in {t \in present :
                            /\ DispositionMatches(token, t, srcs[e].filter)
                            /\ Abs(p - pos[t]) <= srcs[e].radius}}

\* the actors in range of effect e of a token where it stands, script included
ActorsInRangeNow(token, e) ==
    {actorOf[t] : t \in {t \in present :
                            /\ DispositionMatches(token, t, srcs[e].filter)
                            /\ Abs(pos[token] - pos[t]) <= srcs[e].radius
                            /\ executeScript(token, t, e)}}

\* C18: when moveToken goes on after the animation of a leg, final or not,
\* then for every active source aura E of the moved token with a radius, the
\* clone of E on each actor that was in range from the origin of the leg and
\* is not in range (script included) at its end is named in a delete request
\* of that invocation.
RemovalOnEachLeg ==
    [][\A h \in handlers :
          (h.kind = "moveToken" /\ h.k = "mvBody" /\ Resumes(h)) =>
              \A e \in Range(ActiveAuras(actorOf[h.tok])) :
                  srcs[e].radius # 0 =>
                      \A x \in applied :
                          (/\ x.origin = e
                           /\ x.actor \in ActorsInRangeFrom(h.tok, e, mv[h.tok].origin)
                           /\ x.actor \notin ActorsInRangeNow(h.tok, e)) =>
                              \E q \in queries' :
                                  q.hid = h.hid /\ q.type = "delete" /\ x.id \in q.ids]_vars

\* a leg with more movement pending took an emitter out of range of an actor
\* that held the clone: the delete request is out before the movement is final
RemovedOnPendingLeg ==
    \E q \in queries : \E h \in handlers :
        /\ q.hid = h.hid /\ q.kind = "moveToken" /\ q.type = "delete"
        /\ h.ret = "mvIter"
        /\ ~isFinalMovementComplete(h.tok)
        /\ \E x \in applied : x.id \in q.ids /\ srcs[x.origin].owner = actorOf[h.tok]

\* C19: moveToken computes the start-of-move ranges from the movement origin
\* and then waits for the animation without having asked for anything; it
\* goes on, to the end-of-move ranges and the scene delta, only when the
\* animation of the leg has ended and the token stands, as a document and on
\* the canvas, at the destination of the leg; every request it makes comes
\* after that.
SamplingOrder ==
    [][/\ (Handled("moveToken") /\ actorOf[Head(hooks).tok] # NoActor) =>
             /\ queries' = queries
             /\ \A h \in handlers' \ handlers :
                   /\ h.pc = "anim"
                   /\ \A e \in Src :
                         h.pre[e] =
                             IF e \in Range(ActiveAuras(actorOf[h.tok])) /\ srcs[e].radius # 0
                             THEN ActorsInRangeFrom(h.tok, e, Head(hooks).origin)
                             ELSE {}
       /\ \A h \in handlers :
             (h.kind = "moveToken" /\ h.k = "mvBody" /\ h.pc = "ready" /\ h \notin handlers') =>
                 /\ h.tok \notin animating
                 /\ ObjectCenter(h.tok) = pos[h.tok]
                 /\ pos[h.tok] = mv[h.tok].dest
       /\ \A q \in queries' \ queries :
             q.kind = "moveToken" =>
                 \E h \in handlers : h.hid = q.hid /\ h.pc = "ready"]_vars

\* a moveToken that went on after the animation: the range it found at the end
\* of the leg differs from the one it had recorded from the origin
SampledBothEnds ==
    \E h \in handlers :
        /\ h.kind = "moveToken" /\ h.k = "rrApply" /\ h.ret = "mvIter"
        /\ h.tok \notin animating
        /\ h.pre[h.act[h.i]] # h.post

\* C20: a source aura whose radius is 0 is never queued for addition to an
\* actor: not by the loop of a handler over the auras of an actor, not by
\* getChangingSceneAuras and not by the Best-Of replacement.
RadiusZeroSkipped ==
    \A a \in Actors : \A e \in Range(probe.map[a]) : srcs[e].radius # 0

\* the centre-to-centre path distance of two tokens on a gridless scene, the
\* first measured from cell p, less the external radius of the first
GridlessDistance(tokenA, p, tokenB) ==
    (Abs((2 * p + grid.width[tokenA]) - (2 * pos[tokenB] + grid.width[tokenB]))
        * grid.distance - grid.distance * grid.width[tokenA]) \div 2

\* the least path distance between a cell of the first token, standing at
\* cell p, and a cell of the second
GriddedDistance(tokenA, p, tokenB) ==
    Min({Abs(a - b) * grid.distance :
            a \in p..(p + grid.width[tokenA] - 1),
            b \in pos[tokenB]..(pos[tokenB] + grid.width[tokenB] - 1)})

\* where the first token of a measured pair is measured from
MeasuredFrom == IF probe.args[3] >= 0 THEN probe.args[3] ELSE pos[probe.args[1]]

\* C24: without collision types, getTokenToTokenDistance on a gridless scene
\* is the centre-to-centre path distance less the external radius of the
\* first token, in distance units, and is not negative; on a gridded scene it
\* is the least path distance over the pairs of occupied cells, with no
\* correction.
DistanceNonNegative ==
    (probe.op = "distance" /\ probe.args[4] = <<>>) =>
        /\ probe.val >= 0
        /\ probe.val = IF grid.gridless
                       THEN GridlessDistance(probe.args[1], MeasuredFrom, probe.args[2])
                       ELSE GriddedDistance(probe.args[1], MeasuredFrom, probe.args[2])

\* C24, as the code has it: the same two values, where the gridless one is
\* negative when the centres are closer than the external radius of the first
\* token, and is never below minus that radius.
DistanceAsMeasured ==
    (probe.op = "distance" /\ probe.args[4] = <<>>) =>
        /\ probe.val >= 0 - externalAdjust(probe.args[1])
        /\ ~grid.gridless => probe.val >= 0
        /\ probe.val = IF grid.gridless
                       THEN GridlessDistance(probe.args[1], MeasuredFrom, probe.args[2])
                       ELSE GriddedDistance(probe.args[1], MeasuredFrom, probe.args[2])

\* on a gridless scene, a token two cells wide was measured against a token
\* whose centre is three cells away: two units per cell, less the radius
GridlessMeasured ==
    /\ probe.op = "distance" /\ probe.args[4] = <<>> /\ grid.gridless
    /\ probe.args[1] = 1 /\ probe.args[2] = 2 /\ probe.args[3] = -1
    /\ grid.width[1] = 2 /\ grid.width[2] = 2 /\ pos[1] = 0 /\ pos[2] = 3
    /\ probe.val = 4

\* the tokens whose exact distance from the source of the last getNearbyTokens
\* call is within its radius
ExactlyWithin ==
    {t \in present :
        getTokenToTokenDistance(probe.args[1], t, -1, probe.args[4]) <= probe.args[2]}

\* the tokens that relate to the source as the disposition of the call asks
Related ==
    {t \in present :
        \/ probe.args[3] = 0
        \/ probe.args[3] < 0 /\ disp[probe.args[1]] * disp[t] = -1
        \/ probe.args[3] > 0 /\ disp[probe.args[1]] = disp[t]}

SortedEmitters(i) ==
    Sorted(allEmitting(probe.names[i].name), probe.names[i].name)

\* the place of token t in the scene, and whether its aura of the name has a
\* best-formula, and its total
Discovery(t) == CHOOSE k \in 1..Len(SceneTokens) : SceneTokens[k] = t
HasFormula(t, i) == srcs[Head(getSourceEffect(t, probe.names[i].name))].formula
TotalOf(t, i) == srcs[Head(getSourceEffect(t, probe.names[i].name))].total

\* C27: in the emitter list of removeAndReplaceAuras every emitter without
\* best-formula comes after every emitter with one, the emitters with a
\* formula are in descending order of their totals, and emitters that tie
\* (equal totals, or both without formula) keep their order on the scene.
BestOfOrdering ==
    probe.op = "bestof" =>
        \A i \in 1..Len(probe.names) :
            \A j, k \in 1..Len(SortedEmitters(i)) :
                j < k =>
                    LET a == SortedEmitters(i)[j]
                        b == SortedEmitters(i)[k]
                    IN  /\ HasFormula(b, i) => HasFormula(a, i)
                        /\ (HasFormula(a, i) /\ HasFormula(b, i)) =>
                               TotalOf(a, i) >= TotalOf(b, i)
                        /\ (\/ ~HasFormula(a, i) /\ ~HasFormula(b, i)
                            \/ /\ HasFormula(a, i) /\ HasFormula(b, i)
                               /\ TotalOf(a, i) = TotalOf(b, i)) =>
                               Discovery(a) < Discovery(b)

\* C22: a source aura that is not to apply to self is never queued for
\* addition to the actor that owns it: not by the loop of a handler over the
\* auras of an actor, not by getChangingSceneAuras and not by the Best-Of
\* replacement, also when the actor has two tokens on the scene.
NoSelfApplication ==
    \A a \in Actors : \A e \in Range(probe.map[a]) :
        srcs[e].owner = a => srcs[e].applyToSelf

\* the cells token t covers
CellsOf(t) == pos[t]..(pos[t] + grid.width[t] - 1)

\* a wall of one of the collision types of effect e stands between cells a, b
WallBetween(a, b, e) ==
    \E i \in 1..Len(srcs[e].collisionTypes) :
        \E w \in grid.walls[srcs[e].collisionTypes[i]] :
            (a < w /\ w <= b) \/ (b < w /\ w <= a)

\* every pair of cells of tokens s and t has such a wall between them
Walled(s, t, e) == \A a \in CellsOf(s) : \A b \in CellsOf(t) : WallBetween(a, b, e)

\* token s reaches token t with effect e: two of their cells are close enough
\* with no wall between them, and the script is true
Reaches(s, t, e) ==
    /\ \E a \in CellsOf(s) : \E b \in CellsOf(t) :
          Abs(a - b) <= srcs[e].radius /\ ~WallBetween(a, b, e)
    /\ srcs[e].script = "flag" => flag[actorOf[t]]

\* the disposition filter of effect e admits the pair of tokens
FilterAdmits(s, t, e) == srcs[e].filter \in {0, disp[s] * disp[t]}

\* C25: getChangingSceneAuras(token) looks at each active source aura E on
\* each token of another actor. If the filter of E is neither 0 nor the
\* product of the two dispositions, E is not added and its clone is not
\* removed. Otherwise, if the distance exceeds the radius or the script is
\* false, E is not added and the clone of E the target holds, if any, is in
\* toRemove; else E is in toAdd.
DeltaDecision ==
    [][probe'.op = "delta" =>
          \A s \in present : \A e \in Range(ActiveAuras(actorOf[s])) :
              actorOf[s] # actorOf[probe'.tok] =>
                  LET target == actorOf[probe'.tok]
                      toAdd == Range(probe'.map[target])
                      toRemove == Range(probe'.rem)
                      held == {x \in applied : x.actor = target /\ x.origin = e}
                  IN  IF ~FilterAdmits(s, probe'.tok, e)
                      THEN e \notin toAdd /\ held \cap toRemove = {}
                      ELSE IF ~Reaches(s, probe'.tok, e)
                           THEN e \notin toAdd /\ held \subseteq toRemove
                           ELSE e \in toAdd]_vars

\* the target held the clone of an aura that admits it but whose script is
\* false: the clone was put in toRemove, while the aura of token 2 was put
\* in toAdd
RemovedAndAdded ==
    /\ probe.op = "delta" /\ probe.tok = 3
    /\ IsActive(1) /\ FilterAdmits(1, 3, 1) /\ srcs[1].filter # 0 /\ ~flag[3]
    /\ CloneOf(3, 1) \in Range(probe.rem)
    /\ probe.map[3] = <<2>>

CollisionBlocks ==
    [][probe'.op # "none" =>
          \A s \in present : \A t \in present : \A e \in Range(ActiveAuras(actorOf[s])) :
              (actorOf[t] # actorOf[s] /\ Walled(s, t, e)) =>
                  /\ getTokenToTokenDistance(s, t, -1, srcs[e].collisionTypes) = Infinity
                  /\ Infinity > srcs[e].radius
                  /\ e \notin Range(probe'.map[actorOf[t]])
                  /\ (probe'.op = "delta" /\ probe'.tok = t) =>
                         \A x \in applied :
                             (x.actor = actorOf[t] /\ x.origin = e) =>
                                 x \in Range(probe'.rem)]_vars

\* C30: the same, where getChangingSceneAuras removes the clone the target
\* holds when the disposition filter of E admits the two tokens (the filter
\* is applied before the distance is measured).
CollisionBlocksAdmitted ==
    [][probe'.op # "none" =>
          \A s \in present : \A t \in present : \A e \in Range(ActiveAuras(actorOf[s])) :
              (actorOf[t] # actorOf[s] /\ Walled(s, t, e)) =>
                  /\ getTokenToTokenDistance(s, t, -1, srcs[e].collisionTypes) = Infinity
                  /\ Infinity > srcs[e].radius
                  /\ e \notin Range(probe'.map[actorOf[t]])
                  /\ (probe'.op = "delta" /\ probe'.tok = t /\ FilterAdmits(s, t, e)) =>
                         \A x \in applied :
                             (x.actor = actorOf[t] /\ x.origin = e) =>
                                 x \in Range(probe'.rem)]_vars

\* token 1 stands one cell from the target, behind a wall its aura heeds: the
\* clone the target held is in toRemove and the aura is not in toAdd
WalledOff ==
    /\ probe.op = "delta" /\ probe.tok = 3
    /\ IsActive(1) /\ pos[1] = 0 /\ Walled(1, 3, 1)
    /\ FilterAdmits(1, 3, 1) /\ flag[3]
    /\ CloneOf(3, 1) \in Range(probe.rem)
    /\ 1 \notin Range(probe.map[3])

\* C23: an actor that holds the clone of aura E and qualifies for E before
\* and after a document changes keeps the clone: handling the change never
\* has the clone deleted by a handler that then re-applies E to the actor.
\* (Under SpecThrash the actor qualifies before the one change by
\* construction; Expected tests it after the change, when the delete query
\* is served, and the names the handler recorded give the re-application.)
NoThrashing ==
    [][\A q \in queries \ queries' : q.type = "delete" =>
          \A x \in applied : \A h \in handlers :
              (x.id \in q.ids /\ h.hid = q.hid /\ Expected(x.actor, x.origin)) =>
                  x.origin \notin Range(newBestApplyMap(EmptyMap, h.names)[x.actor])]_vars

\* C28: the hook call for the creation or deletion of an effect flagged as
\* aura-derived makes addRemoveEffect return with no query issued and no
\* handler left suspended; so after one change of a document, with no
\* further change, the hook calls the GM's own creations and deletions cause
\* come to an end and no hook call, handler or query is left pending.
NoFeedbackLoop ==
    /\ [][(hooks # <<>> /\ Head(hooks).kind = "addRemoveEffect" /\ Head(hooks).fromAura) =>
             (queries' = queries /\ handlers' = handlers /\ applied' = applied)]_vars
    /\ <>[](hooks = <<>> /\ handlers = {} /\ queries = {})

\* the GM has created an applied effect and the hook call for it is waiting
CreationNoticed ==
    /\ hooks # <<>>
    /\ Head(hooks).kind = "addRemoveEffect" /\ Head(hooks).fromAura
    /\ \E x \in applied : x.actor = Head(hooks).actor /\ x.actor # 3
    /\ queries = {}

----------------------------------------------------------------------------
(* The aura visualisation: the placeables of the canvas and their auras *)

\* placeables a token document gets over its life
MaxDraws == 2

\* token.object of a document without a placeable
Null == <<0, 0>>

\* token.object
ObjectOf(c, t) == IF c.object[t] = 0 THEN Null ELSE <<t, c.object[t]>>

\* updateAurasForToken(token): err tells whether it threw, canvas is what it left.
\* tokenAuras.get(token) is undefined for a placeable the map does not hold
\* (lines 490 and 498 call a method on it, line 502 guards it with ?.).
updateAurasForToken(c, token) ==
    LET t == token[1]
        tracked == token \in c.tokenAuras
        held == {e \in Src : <<token, e>> \in c.auras}
        sourceEffects == {e \in Range(ActiveAuras(actorOf[t])) : e \in c.showRadius}
    IN  IF token = Null THEN [err |-> TRUE, canvas |-> c]
        ELSE IF actorOf[t] = NoActor \/ c.disableVisuals
        THEN IF ~tracked THEN [err |-> TRUE, canvas |-> c]
             ELSE [err |-> FALSE,
                   canvas |-> [c EXCEPT !.auras = {x \in @ : x[1] # token},
                                        !.auraEffects = {x \in @ : ~(x.id[1] = t /\ x.id[2] \in held)}]]
        ELSE IF ~tracked
        THEN [err |-> sourceEffects # {}, canvas |-> c]
        ELSE [err |-> FALSE,
              canvas |-> [c EXCEPT
                  !.auras = {x \in @ : x[1] # token} \cup {<<token, e>> : e \in sourceEffects},
                  !.auraEffects =
                      {x \in @ : ~(x.id[1] = t /\ x.id[2] \in held \cup sourceEffects)}
                      \cup {[id |-> <<t, e>>, of |-> token] : e \in sourceEffects}]]

\* the canvas draws the placeable of a token (a new one when the document has
\* none, or only a destroyed one), and the drawToken hook runs; no preview here
drawToken(t) ==
    /\ Event
    /\ t \in present
    /\ \E g \in {IF ObjectOf(canvas, t) = Null \/ ObjectOf(canvas, t) \in canvas.destroyed
                 THEN canvas.drawn[t] + 1 ELSE canvas.object[t]} :
          /\ g <= MaxDraws
          /\ \E r \in {updateAurasForToken(
                          [canvas EXCEPT !.object[t] = g,
                                         !.drawn[t] = IF g > @ THEN g ELSE @,
                                         !.tokenAuras = @ \cup {<<t, g>>}], <<t, g>>)} :
                /\ canvas' = r.canvas
                /\ raised' = (raised \/ r.err)
    /\ UNCHANGED <<actorOf, disp, present, pos, hidden, mv, animating, srcs, flag, grid, engine,
                   applied, gm, seenWarning, warnings, handlers, queries, hooks, probe>>

\* the updateToken hook of the visualisation, up to its await: an update with
\* x moves the document, and the handler waits for the animation of the placeable
updateTokenVisualization(t, key, p) ==
    /\ Event
    /\ t \in present
    /\ IF key = "x"
       THEN /\ p # pos[t]
            /\ pos' = [pos EXCEPT ![t] = p]
            /\ hidden' = hidden
            /\ IF ObjectOf(canvas, t) = Null \/ ObjectOf(canvas, t) \in canvas.destroyed
               THEN UNCHANGED <<handlers, animating>>
               ELSE /\ handlers' = handlers \cup
                                     {[kind |-> "visual", tok |-> t, obj |-> ObjectOf(canvas, t)]}
                    /\ animating' = animating \cup {t}
       ELSE /\ p = pos[t]
            /\ hidden' = [hidden EXCEPT ![t] = ~@]
            /\ UNCHANGED <<pos, handlers, animating>>
    /\ UNCHANGED <<actorOf, disp, present, mv, srcs, flag, grid, engine, canvas, applied, gm,
                   seenWarning, warnings, queries, raised, hooks, probe>>

\* the movement animation promise of a token resolves, and what waited for it
\* goes on: updateAurasForToken(token.object), with token.object read anew
VisualResume(t) ==
    /\ t \in animating
    /\ animating' = animating \ {t}
    /\ handlers' = {h \in handlers : h.tok # t}
    /\ \E r \in {updateAurasForToken(canvas, ObjectOf(canvas, t))} :
          /\ canvas' = r.canvas
          /\ raised' = (raised \/ r.err)
    /\ UNCHANGED <<actorOf, disp, present, pos, hidden, mv, srcs, flag, grid, engine, applied, gm,
                   seenWarning, warnings, queries, hooks, probe, budget>>

\* the placeable of a token is destroyed, with its document (deleted) or
\* without (the canvas is torn down), and the destroyToken hook runs.
\* Whether the document still refers to the destroyed placeable afterwards
\* is the framework's choice (cleared).
destroyToken(t, deleted, cleared) ==
    /\ Event
    /\ ObjectOf(canvas, t) # Null
    /\ ObjectOf(canvas, t) \notin canvas.destroyed
    /\ present' = IF deleted THEN present \ {t} ELSE present
    /\ \E token \in {ObjectOf(canvas, t)} :
          canvas' = [canvas EXCEPT
              !.object[t] = IF cleared THEN 0 ELSE @,
              !.destroyed = @ \cup {token},
              !.tokenAuras = @ \ {token},
              !.auras = {x \in @ : x[1] # token},
              !.auraEffects = {x \in @ : ~(token \in canvas.tokenAuras /\ x.id[1] = t
                                           /\ <<token, x.id[2]>> \in canvas.auras)}]
    /\ UNCHANGED <<actorOf, disp, pos, hidden, mv, animating, srcs, flag, grid, engine, applied,
                   gm, seenWarning, warnings, handlers, queries, raised, hooks, probe>>

\* the scene at rest, nothing drawn yet; which auras show their radius, and
\* whether the visuals are switched off, are settings of the world
InitVisual ==
    /\ actorOf = [t \in Tokens |-> IF t = 4 THEN NoActor ELSE t]
    /\ disp = [t \in Tokens |-> 1]
    /\ present = {1, 2, 4}
    /\ pos = [t \in Tokens |-> IF t = 1 THEN 0 ELSE IF t = 2 THEN MaxPos ELSE 1]
    /\ hidden = [t \in Tokens |-> FALSE]
    /\ mv = [t \in Tokens |-> Still(pos[t])]
    /\ animating = {}
    /\ srcs = [e \in Src |-> Source(IF e = 3 THEN 1 ELSE e, "Bless", FALSE, 0, FALSE, "none")]
    /\ flag = [a \in Actors |-> TRUE]
    /\ grid = OpenGrid
    /\ engine = "PivotFirst"
    /\ \E v \in BOOLEAN, shown \in {{}, {1}, {1, 3}} :
          canvas = [NoCanvas EXCEPT !.disableVisuals = v, !.showRadius = shown]
    /\ applied = {}
    /\ gm = TRUE
    /\ seenWarning = [u \in Users |-> FALSE]
    /\ warnings = [u \in Users |-> 0]
    /\ handlers = {}
    /\ queries = {}
    /\ raised = FALSE
    /\ hooks = <<>>
    /\ probe = NoProbe
    /\ budget = MaxEvents + 1

NextVisual ==
    \/ \E t \in Tokens : drawToken(t)
    \/ \E t \in Tokens, key \in {"x", "hidden"}, p \in Cells : updateTokenVisualization(t, key, p)
    \/ \E t \in Tokens : VisualResume(t)
    \/ \E t \in Tokens, deleted \in BOOLEAN, cleared \in BOOLEAN : destroyToken(t, deleted, cleared)

SpecVisual == InitVisual /\ [][NextVisual]_vars

\* the auras of destroyed placeables still held by tokenAuras or by
\* canvas.effects.auraEffects
AurasOfDestroyed ==
    {x \in canvas.auras : x[1] \in canvas.destroyed}
    \cup {x.id : x \in {y \in canvas.auraEffects : y.of \in canvas.destroyed}}

\* C31: when the placeable of a token is destroyed while
\* updateTokenVisualization waits for its movement animation, the update that
\* goes on afterwards throws no error and leaves no aura of the destroyed
\* placeable in tokenAuras or in canvas.effects.auraEffects.
VisualizationSurvives ==
    [][\A h \in handlers \ handlers' :
          (h.kind = "visual" /\ h.obj \in canvas.destroyed)
              => (raised' = raised /\ AurasOfDestroyed' = {})]_vars

----------------------------------------------------------------------------
(* The disposition filter, over every pair of dispositions *)

\* the three dispositions a filter tells apart: hostile, neutral, friendly
Dispositions == {-1, 0, 1}

\* Tokens 1 and 2 emit an aura of the same name, each with its own filter;
\* token 3 stands between them; every token has any of the dispositions
InitDisposition ==
    /\ actorOf = [t \in Tokens |-> IF t = 4 THEN 3 ELSE t]
    /\ \E d \in [{1, 2, 3} -> Dispositions] : disp = [t \in Tokens |-> IF t = 4 THEN 1 ELSE d[t]]
    /\ present = {1, 2, 3}
    /\ \E a \in Cells : pos = [t \in Tokens |-> IF t = 1 THEN a ELSE IF t = 2 THEN 2 ELSE 1]
    /\ hidden = [t \in Tokens |-> FALSE]
    /\ mv = [t \in Tokens |-> Still(pos[t])]
    /\ animating = {}
    /\ \E f \in Dispositions, g \in Dispositions :
          srcs = [e \in Src |->
                    CASE e = 1 -> [Source(1, "Bless", TRUE, 3, FALSE, "none") EXCEPT !.filter = f]
                      [] e = 2 -> [Source(2, "Bless", TRUE, 2, FALSE, "none") EXCEPT !.filter = g]
                      [] OTHER -> [Source(3, "Bless", TRUE, 1, FALSE, "none")
                                      EXCEPT !.exists = FALSE]]
    /\ flag = [a \in Actors |-> TRUE]
    /\ grid = OpenGrid
    /\ engine = "PivotFirst"
    /\ canvas = NoCanvas
    /\ applied \in SUBSET {CloneOf(3, 1), CloneOf(2, 1)}
    /\ NothingRunning

SpecDisposition == InitDisposition /\ [][NextScene]_vars

\* C32: for every pair of tokens of different actors and every active aura E
\* of the first, the disposition test of getNearbyTokens (the source side)
\* accepts the second token for E exactly when the disposition test of
\* getChangingSceneAuras (the target side) accepts E for the second token:
\* the tokens getNearbyTokens returns for E are those whose delta adds E.
DispositionSidesAgree ==
    \A s \in present : \A t \in present : \A e \in Range(ActiveAuras(actorOf[s])) :
        actorOf[s] # actorOf[t] =>
            (t \in Range(getNearbyTokens(s, srcs[e].radius, -1, srcs[e].filter,
                                         srcs[e].collisionTypes))
                <=> e \in Range(DeltaOfSource(t, s).add))

\* C33: every (target actor, source effect E) pair of an apply request, the
\* replacement requests of removeAndReplaceAuras included, is one where a
\* token of the target actor stands to a token emitting E in the disposition
\* relation the filter of E asks for.
FilterRespected ==
    probe.op \in {"source", "delta", "bestof"} =>
        \A a \in Actors : \A e \in Range(probe.map[a]) :
            \E s \in present : \E t \in present :
                /\ actorOf[s] = srcs[e].owner
                /\ actorOf[t] = a
                /\ DispositionMatches(s, t, srcs[e].filter)

\* C34: in the result of one call of getChangingSceneAuras, no source effect
\* is in toAdd while the applied effect of the target with that origin is in
\* toRemove, also when the emitting actor has several tokens on the scene at
\* different distances from the target.
DeltaConsistent ==
    probe.op = "delta" =>
        \A x \in Range(probe.rem) : x.origin \notin Range(probe.map[actorOf[probe.tok]])

\* C35: in every apply request the list of source effects of a target actor
\* holds each source effect at most once, also when several tokens of the
\* target actor are in range.
NoRepeats ==
    probe.op \in {"source", "bestof"} =>
        \A a \in Holders : \A i \in 1..Len(probe.map[a]) : \A j \in 1..Len(probe.map[a]) :
            probe.map[a][i] = probe.map[a][j] => i = j

====
